---- MODULE Spec2Model ----
(***************************************************************************)
(* A model of the conversational agent of src/terminal: the interview      *)
(* engine (CareerPlanner), the weather history cache (WeatherHistory), and *)
(* the orchestrator (AgentCore.process_message and its handlers).          *)
(*                                                                         *)
(* Texts are strings.  Text typed by the user is written out; a bracketed  *)
(* name such as "<welcome>" stands for a fixed literal of the source (the  *)
(* literals are CJK text).  Concatenation of texts is \o, as in the source.*)
(***************************************************************************)
EXTENDS Integers, Sequences, FiniteSets, TLC

VARIABLES
    context,               \* CareerPlanner.context (CareerContext fields)
    current_stage,         \* CareerPlanner.current_stage
    collected_info,        \* CareerPlanner.collected_info
    needs_followup,        \* CareerPlanner._needs_followup
    ret,                   \* the last direct planner call: argument and result
    n_answers,             \* process_answer calls made directly on the interview under way
    in_career_interview,   \* AgentCore._in_career_interview
    conversation_history,  \* AgentCore.conversation_history
    history,               \* WeatherService.history.entries
    persisted,             \* the documents history_file holds: none, or one as JSON
    clock,                 \* datetime.now() as seen by WeatherHistory.add_entry
    pc,                    \* where the generator of the current turn is suspended
    turn,                  \* locals of the suspended generator
    emitted,               \* chunks yielded in the current (or last) turn
    requests,              \* generation requests issued in that turn
    n_requests,            \* calls made to the generation collaborator so far
    n_lookups,             \* calls made to the weather collaborator so far
    idle_turns,            \* turns handled in Idle mode since the last clear
    touched,               \* the cities passed to direct add_entry calls, in order
    api_key,               \* AgentCore.config.api_key
    client                 \* whether AgentCore.client has been created

planner_vars == <<context, current_stage, collected_info, needs_followup>>
agent_vars == <<in_career_interview, conversation_history, history, persisted, clock, pc,
                turn, emitted, requests, n_requests, n_lookups, idle_turns, touched,
                api_key, client>>
vars == <<context, current_stage, collected_info, needs_followup, ret, n_answers,
          in_career_interview, conversation_history, history, persisted, clock, pc,
          turn, emitted, requests, n_requests, n_lookups, idle_turns, touched,
          api_key, client>>

(***************************************************************************)
(* Bounds of the model.                                                    *)
(***************************************************************************)
MaxMessages == 16
MaxIdleTurns == 2
MaxRequests == 1
MaxLookups == 1
MaxDeltas == 1
MaxTouches == 5
MaxCities == 11
MaxRetouches == 1
\* the deltas of one longer stream
MaxStreamDeltas == 3
\* the lookups that fill a history document
MaxDocTouches == 3

(***************************************************************************)
(* Text helpers: str.lower, str.strip, substring test (the in operator).   *)
(***************************************************************************)
None == "<None>"

UpperCase == "ABCDEFGHIJKLMNOPQRSTUVWXYZ"
LowerCase == "abcdefghijklmnopqrstuvwxyz"

\* s[i-1:j] of the source, for 1 <= i and j <= len(s); empty when i > j
Slice(s, i, j) == IF i > j THEN "" ELSE SubSeq(s, i, j)

CharAt(s, i) == SubSeq(s, i, i)

\* the lower-case letter of each upper-case letter
LowerTable ==
    [c \in {CharAt(UpperCase, i) : i \in 1..Len(UpperCase)} |->
        CharAt(LowerCase, CHOOSE i \in 1..Len(UpperCase) : CharAt(UpperCase, i) = c)]

LowerChar(c) == IF c \in DOMAIN LowerTable THEN LowerTable[c] ELSE c

RECURSIVE Lower(_)
Lower(s) == IF s = "" THEN "" ELSE LowerChar(Head(s)) \o Lower(Tail(s))

IsSpace(c) == c \in {" ", "\t", "\n"}

RECURSIVE LStrip(_)
LStrip(s) == IF s # "" /\ IsSpace(Head(s)) THEN LStrip(Tail(s)) ELSE s

RECURSIVE RStrip(_)
RStrip(s) ==
    IF s # "" /\ IsSpace(CharAt(s, Len(s))) THEN RStrip(Slice(s, 1, Len(s) - 1)) ELSE s

Strip(s) == RStrip(LStrip(s))

\* index of the first occurrence of sub in s at or after position from, or 0
FindFrom(s, sub, from) ==
    LET hits == {i \in from..(Len(s) - Len(sub) + 1) :
                    SubSeq(s, i, i + Len(sub) - 1) = sub}
    IN IF hits = {} THEN 0 ELSE CHOOSE i \in hits : \A j \in hits : i <= j

Contains(s, sub) == FindFrom(s, sub, 1) # 0

StartsWith(s, p) == Len(s) >= Len(p) /\ SubSeq(s, 1, Len(p)) = p

(***************************************************************************)
(* CareerPlanner (src/terminal/career_planner.py)                          *)
(***************************************************************************)
INTERVIEW_STAGES ==
    <<"basic_info", "interests", "skills", "experience", "goals", "preferences">>

NumStages == Len(INTERVIEW_STAGES)

MIN_ANSWER_LENGTH == 10

\* CareerContext(): every field is None
EmptyContext == [s \in {INTERVIEW_STAGES[i] : i \in 1..NumStages} |-> None]

\* the preconditions of the source's stage-indexed lookups hold (0-based index)
StageName(k) == INTERVIEW_STAGES[k + 1]

get_progress == <<current_stage, NumStages>>

\* CareerPlanner.is_complete
is_complete == current_stage >= NumStages

\* CareerContext.get_progress: the stages whose field is truthy (neither None
\* nor the empty str), of total_stages = 6
context_get_progress(ctx) ==
    <<Cardinality({s \in DOMAIN ctx : ctx[s] # None /\ ctx[s] # ""}), 6>>

\* CareerContext.is_complete: get_progress() >= 1.0
context_is_complete(ctx) ==
    context_get_progress(ctx)[1] >= context_get_progress(ctx)[2]

is_answer_sufficient_strict(stage, answer) ==
    ~(answer = "" \/ Len(Strip(answer)) <= MIN_ANSWER_LENGTH)

is_answer_sufficient(stage, answer) ==
    ~(answer = "" \/ Len(Strip(answer)) < MIN_ANSWER_LENGTH)

generate_followup_question(stage, answer) ==
    "<short_answer>" \o "<followup:" \o stage \o ">" \o "\n\n"
        \o "<examples:" \o stage \o ">"

get_progress_bar(stage_index) ==
    "<progress:" \o ToString(stage_index) \o "/" \o ToString(NumStages) \o ">"

get_current_question(stage_index) ==
    IF stage_index >= NumStages THEN ""
    ELSE "<question:" \o ToString(stage_index + 1) \o "/" \o ToString(NumStages) \o ">"
           \o "\n\n" \o "<question:" \o StageName(stage_index) \o ">" \o "\n\n"
           \o "<examples:" \o StageName(stage_index) \o ">"

get_completion_message(stage_index) ==
    "<collection_done>" \o "\n\n" \o get_progress_bar(stage_index)
        \o "\n\n" \o "<thanks>"

AlreadyCompleteMessage_next_question == get_current_question(NumStages)

AlreadyCompleteMessage == "<already_complete>"

\* _save_answer: setattr(self.context, stage, answer); collected_info[stage] = answer
save_context(ctx, stage, answer) == [ctx EXCEPT ![stage] = answer]

save_collected_first(info, stage, answer) ==
    [s \in DOMAIN info \cup {INTERVIEW_STAGES[1]} |->
        IF s = INTERVIEW_STAGES[1] THEN answer ELSE info[s]]

save_collected_nonempty(info, stage, answer) ==
    IF answer = "" THEN info
    ELSE [s \in DOMAIN info \cup {stage} |-> IF s = stage THEN answer ELSE info[s]]

save_collected(info, stage, answer) ==
    [s \in DOMAIN info \cup {stage} |-> IF s = stage THEN answer ELSE info[s]]

\* the planner after reset(), as a record of its four fields
ResetState ==
    [context |-> EmptyContext, current_stage |-> 0,
     collected_info |-> <<>>, needs_followup |-> FALSE]

\* the test of lines 114 and 134: no stage is left
stages_exhausted_early(stage_index) == stage_index >= NumStages - 1

stages_exhausted(stage_index) == stage_index >= NumStages

\* the test of lines 120-121: the answer is turned down and a follow-up is asked
asks_followup_always(stage, answer) == ~is_answer_sufficient(stage, answer)

asks_followup_while_empty(stage, answer) ==
    ~is_answer_sufficient(stage, answer) /\ (~needs_followup \/ answer = "")

asks_followup(stage, answer) ==
    ~is_answer_sufficient(stage, answer) /\ ~needs_followup

process_answer_saves_first(answer) ==
    IF stages_exhausted(current_stage)
    THEN [context |-> context, current_stage |-> current_stage,
          collected_info |-> collected_info, needs_followup |-> needs_followup,
          complete |-> TRUE, response |-> AlreadyCompleteMessage]
    ELSE LET name == StageName(current_stage) IN
         IF asks_followup(name, answer)
         THEN [context |-> save_context(context, name, answer),
               current_stage |-> current_stage,
               collected_info |-> save_collected(collected_info, name, answer),
               needs_followup |-> TRUE,
               complete |-> FALSE,
               response |-> generate_followup_question(name, answer)]
         ELSE LET next == current_stage + 1 IN
              [context |-> save_context(context, name, answer),
               current_stage |-> next,
               collected_info |-> save_collected(collected_info, name, answer),
               needs_followup |-> FALSE,
               complete |-> stages_exhausted(next),
               response |-> IF stages_exhausted(next)
                            THEN get_completion_message(next)
                            ELSE get_progress_bar(next) \o "\n\n"
                                     \o get_current_question(next)]

\* process_answer: the planner's fields after the call, and the returned pair
process_answer(answer) ==
    IF stages_exhausted(current_stage)
    THEN [context |-> context, current_stage |-> current_stage,
          collected_info |-> collected_info, needs_followup |-> needs_followup,
          complete |-> TRUE, response |-> AlreadyCompleteMessage]
    ELSE LET name == StageName(current_stage) IN
         IF asks_followup(name, answer)
         THEN [context |-> context, current_stage |-> current_stage,
               collected_info |-> collected_info, needs_followup |-> TRUE,
               complete |-> FALSE,
               response |-> generate_followup_question(name, answer)]
         ELSE LET next == current_stage + 1 IN
              [context |-> save_context(context, name, answer),
               current_stage |-> next,
               collected_info |-> save_collected(collected_info, name, answer),
               needs_followup |-> FALSE,
               complete |-> stages_exhausted(next),
               response |-> IF stages_exhausted(next)
                            THEN get_completion_message(next)
                            ELSE get_progress_bar(next) \o "\n\n"
                                     \o get_current_question(next)]

\* start_interview: reset(), then the welcome text with the first question
start_interview_text ==
    "<welcome>" \o "<count:" \o ToString(NumStages) \o ">" \o "\n\n"
        \o get_progress_bar(0) \o "\n\n" \o get_current_question(0)

SetPlanner(p) ==
    /\ context' = p.context
    /\ current_stage' = p.current_stage
    /\ collected_info' = p.collected_info
    /\ needs_followup' = p.needs_followup

\* Answers given to the planner when it is driven directly
AnsEmpty == ""
AnsOk == "ok"
AnsPadded == " ok          "
AnsNine == "nine chrs"
AnsTen == "i am a dev"
AnsLong == "  I write code\n"
Answers == {AnsEmpty, AnsOk, AnsPadded, AnsNine, AnsTen, AnsLong}

NoRet == [op |-> "none", answer |-> "", complete |-> FALSE, response |-> ""]

PlannerStartInterview ==
    /\ SetPlanner(ResetState)
    /\ n_answers' = 0
    /\ ret' = [op |-> "start_interview", answer |-> "", complete |-> FALSE,
               response |-> start_interview_text]
    /\ UNCHANGED agent_vars

PlannerProcessAnswer(answer) ==
    /\ n_answers' = IF stages_exhausted(current_stage) THEN n_answers ELSE n_answers + 1
    /\ LET r == process_answer(answer) IN
         /\ SetPlanner(r)
         /\ ret' = [op |-> "process_answer", answer |-> answer,
                    complete |-> r.complete, response |-> r.response]
    /\ UNCHANGED agent_vars

PlannerReset ==
    /\ SetPlanner(ResetState)
    /\ n_answers' = 0
    /\ ret' = [op |-> "reset", answer |-> "", complete |-> FALSE, response |-> ""]
    /\ UNCHANGED agent_vars

(***************************************************************************)
(* WeatherHistory.add_entry (src/terminal/models.py)                       *)
(***************************************************************************)
MAX_ENTRIES == 10

RemoveAt(seq, i) == SubSeq(seq, 1, i - 1) \o SubSeq(seq, i + 1, Len(seq))

city_key_exact(city) == city

\* the key two city names are compared by: city.lower()
city_key(city) == Lower(city)

limit_keeps_oldest(entries) ==
    IF Len(entries) > MAX_ENTRIES
    THEN SubSeq(entries, Len(entries) - MAX_ENTRIES + 1, Len(entries))
    ELSE entries

\* lines 125-126: self.entries = self.entries[:self.max_entries]
limit(entries) ==
    IF Len(entries) > MAX_ENTRIES THEN SubSeq(entries, 1, MAX_ENTRIES) ELSE entries

update_existing_in_place(entries, existing_index, weather, now) ==
    [entries EXCEPT ![existing_index] =
        [@ EXCEPT !.last_query_time = now, !.query_count = @ + 1,
                  !.last_weather = weather]]

\* lines 109-113: the entry is popped, updated and inserted at index 0
update_existing(entries, existing_index, weather, now) ==
    LET existing == entries[existing_index]
    IN <<[existing EXCEPT !.last_query_time = now,
                          !.query_count = @ + 1,
                          !.last_weather = weather]>>
           \o RemoveAt(entries, existing_index)

add_entry_appends(entries, city, weather, now) ==
    LET city_lower == city_key(city)
        found == {i \in 1..Len(entries) : city_key(entries[i].city) = city_lower}
    IN IF found # {}
       THEN update_existing(entries, CHOOSE i \in found : \A j \in found : i <= j,
                            weather, now)
       ELSE limit(Append(entries, [city |-> city, last_query_time |-> now,
                                   query_count |-> 1, last_weather |-> weather]))

\* the entries after add_entry(city, weather) at time now
add_entry(entries, city, weather, now) ==
    LET city_lower == city_key(city)
        found == {i \in 1..Len(entries) : city_key(entries[i].city) = city_lower}
    IN IF found # {}
       THEN update_existing(entries, CHOOSE i \in found : \A j \in found : i <= j,
                            weather, now)
       ELSE limit(<<[city |-> city, last_query_time |-> now,
                     query_count |-> 1, last_weather |-> weather]>> \o entries)

beats_or_ties(entry, best) == entry.query_count >= best.query_count

\* max(..., key=...) replaces its candidate only by a strictly larger key
beats(entry, best) == entry.query_count > best.query_count

\* max(self.entries, key=lambda e: e.query_count), scanning from index i
RECURSIVE max_by_count(_, _, _)
max_by_count(entries, i, best) ==
    IF i > Len(entries) THEN best
    ELSE max_by_count(entries, i + 1, IF beats(entries[i], best) THEN entries[i] ELSE best)

get_most_recent_city(entries) ==
    IF entries = <<>> THEN None ELSE entries[1].city

\* get_most_frequent_city
get_most_frequent_city(entries) ==
    IF entries = <<>> THEN None ELSE max_by_count(entries, 2, entries[1]).city

\* sorted(entries, key=lambda e: e.last_query_time, reverse=True): the last
\* entry is placed behind the entries before it that sort at or before it.
\* sorted is stable, with reverse=True too: of two entries with equal times
\* the one stored first comes first (ties_keep_order); the reverse of an
\* ascending sort would turn them around.
RECURSIVE sorted_by_time(_, _)
sorted_by_time(entries, ties_keep_order) ==
    IF entries = <<>> THEN <<>>
    ELSE LET e == entries[Len(entries)]
             s == sorted_by_time(SubSeq(entries, 1, Len(entries) - 1), ties_keep_order)
             k == Cardinality({i \in 1..Len(s) :
                                  IF ties_keep_order
                                  THEN s[i].last_query_time >= e.last_query_time
                                  ELSE s[i].last_query_time > e.last_query_time})
         IN SubSeq(s, 1, k) \o <<e>> \o SubSeq(s, k + 1, Len(s))

get_entries_reverse_of_ascending(entries) == sorted_by_time(entries, FALSE)

\* WeatherHistory.get_entries_sorted_by_time (WeatherService.get_history)
get_entries_sorted_by_time(entries) == sorted_by_time(entries, TRUE)

(***************************************************************************)
(* Documents as JSON: to_json and from_json of WeatherHistory and          *)
(* APIConfig (src/terminal/models.py).  A document keeps its shape; each   *)
(* value is written as its JSON text and read back from it.                *)
(***************************************************************************)
\* the JSON text of the characters of a str: quote and backslash are escaped
RECURSIVE json_escape(_)
json_escape(s) ==
    IF s = "" THEN ""
    ELSE (IF Head(s) \in {"\"", "\\"} THEN "\\" \o Head(s) ELSE Head(s))
             \o json_escape(Tail(s))

json_unescape_none(t) == t

\* the characters a JSON text stands for
RECURSIVE json_unescape(_)
json_unescape(t) ==
    IF t = "" THEN ""
    ELSE IF Head(t) = "\\" /\ Len(t) >= 2
    THEN CharAt(t, 2) \o json_unescape(Slice(t, 3, Len(t)))
    ELSE Head(t) \o json_unescape(Tail(t))

dump_str(s) == "\"" \o json_escape(s) \o "\""
load_str(t) == json_unescape(Slice(t, 2, Len(t) - 1))

DigitText == <<"0", "1", "2", "3", "4", "5", "6", "7", "8", "9">>

\* an int as decimal digits, and back
RECURSIVE dump_int(_)
dump_int(n) ==
    IF n < 10 THEN DigitText[n + 1] ELSE dump_int(n \div 10) \o DigitText[(n % 10) + 1]

RECURSIVE load_int(_)
load_int(t) ==
    LET DigitValue(c) == CHOOSE d \in 0..9 : DigitText[d + 1] = c
    IN IF Len(t) = 1 THEN DigitValue(t)
       ELSE 10 * load_int(Slice(t, 1, Len(t) - 1)) + DigitValue(CharAt(t, Len(t)))

\* WeatherHistoryEntry with its WeatherData, as JSON.  A datetime is written
\* as ISO-8601 text: the instant n of the clock stands for n seconds past a
\* fixed minute.  A float or int of a reading is held as its shortest decimal
\* text, which is its JSON text.
dump_entry(e) ==
    LET dump_datetime(n) ==
            "\"2026-01-01T00:00:" \o (IF n < 10 THEN "0" ELSE "") \o dump_int(n) \o "\""
        dump_weather(w) ==
            [city |-> dump_str(w.city), temperature |-> w.temperature,
             feels_like |-> w.feels_like, humidity |-> w.humidity,
             wind_speed |-> w.wind_speed, condition |-> dump_str(w.condition)]
    IN [city |-> dump_str(e.city),
        last_query_time |-> dump_datetime(e.last_query_time),
        query_count |-> dump_int(e.query_count),
        last_weather |-> dump_weather(e.last_weather)]

load_entry(j) ==
    LET load_datetime(t) == load_int(Slice(t, 19, 20))
        load_weather(w) ==
            [city |-> load_str(w.city), temperature |-> w.temperature,
             feels_like |-> w.feels_like, humidity |-> w.humidity,
             wind_speed |-> w.wind_speed, condition |-> load_str(w.condition)]
    IN [city |-> load_str(j.city),
        last_query_time |-> load_datetime(j.last_query_time),
        query_count |-> load_int(j.query_count),
        last_weather |-> load_weather(j.last_weather)]

\* WeatherHistory.to_json and WeatherHistory.from_json
history_to_json(doc) ==
    [entries |-> [i \in 1..Len(doc.entries) |-> dump_entry(doc.entries[i])],
     max_entries |-> dump_int(doc.max_entries)]
history_from_json(j) ==
    [entries |-> [i \in 1..Len(j.entries) |-> load_entry(j.entries[i])],
     max_entries |-> load_int(j.max_entries)]

\* APIConfig.to_json and APIConfig.from_json
config_to_json(config) ==
    [provider |-> dump_str(config.provider), base_url |-> dump_str(config.base_url),
     api_key |-> dump_str(config.api_key), model |-> dump_str(config.model)]
config_from_json(j) ==
    [provider |-> load_str(j.provider), base_url |-> load_str(j.base_url),
     api_key |-> load_str(j.api_key), model |-> load_str(j.model)]

\* WeatherService._persist_history: what history_file holds after
\* self.history.save_to_file(self.history_file)
persist_history(entries) ==
    <<history_to_json([entries |-> entries, max_entries |-> MAX_ENTRIES])>>

\* WeatherService._load_history: the entries of the history a WeatherService
\* created on the file starts with; an empty history when there is no file
load_history(file) ==
    IF file = <<>> THEN <<>> ELSE history_from_json(file[1]).entries

(***************************************************************************)
(* AgentCore (src/terminal/agent.py)                                       *)
(***************************************************************************)
\* The keyword lists, without their CJK entries: no text of the model holds
\* a CJK character, so those entries match none of them.
WEATHER_KEYWORDS ==
    <<"weather", "forecast", "humidity", "wind", "climate">>

CAREER_KEYWORDS ==
    <<"career", "job", "plan", "development", "interview", "resume", "skill",
      "learn", "improve", "salary", "promotion", "industry", "advice", "direction">>

detect_intent_career_first(message) ==
    LET message_lower == Lower(message) IN
    IF \E i \in 1..Len(CAREER_KEYWORDS) : Contains(message_lower, CAREER_KEYWORDS[i])
    THEN "career"
    ELSE IF \E i \in 1..Len(WEATHER_KEYWORDS) : Contains(message_lower, WEATHER_KEYWORDS[i])
    THEN "weather"
    ELSE "general"

detect_intent(message) ==
    LET message_lower == Lower(message) IN
    IF \E i \in 1..Len(WEATHER_KEYWORDS) : Contains(message_lower, WEATHER_KEYWORDS[i])
    THEN "weather"
    ELSE IF \E i \in 1..Len(CAREER_KEYWORDS) : Contains(message_lower, CAREER_KEYWORDS[i])
    THEN "career"
    ELSE "general"

\* re.sub(r"[?!,]", "", city) for the ASCII members of the character class
RECURSIVE RemovePunctuation(_)
RemovePunctuation(s) ==
    IF s = "" THEN ""
    ELSE (IF Head(s) \in {"?", "!", ","} THEN "" ELSE Head(s))
             \o RemovePunctuation(Tail(s))

\* the text a greedy (.+) takes from position i: up to the end of the line
RestOfLine(s, i) ==
    LET nl == FindFrom(s, "\n", i)
    IN IF nl = 0 THEN Slice(s, i, Len(s)) ELSE Slice(s, i, nl - 1)

\* group 1 of r"weather (?:in |of |for )?(.+)" at position i (after "weather ")
PatternInGroup(s, i) ==
    LET rest == RestOfLine(s, i)
        skip == IF StartsWith(Lower(rest), "in ") /\ Len(rest) > 3 THEN 3
                ELSE IF StartsWith(Lower(rest), "of ") /\ Len(rest) > 3 THEN 3
                ELSE IF StartsWith(Lower(rest), "for ") /\ Len(rest) > 4 THEN 4
                ELSE 0
    IN Slice(rest, skip + 1, Len(rest))

\* re.search(r"weather (?:in |of |for )?(.+)", message, re.IGNORECASE): group 1 or None
MatchWeatherIn(message) ==
    LET lower == Lower(message)
        starts == {i \in 1..(Len(message) - 7) :
                      /\ SubSeq(lower, i, i + 7) = "weather "
                      /\ RestOfLine(message, i + 8) # ""}
    IN IF starts = {} THEN None
       ELSE PatternInGroup(message, (CHOOSE i \in starts : \A j \in starts : i <= j) + 8)

\* re.search(r"(.+?) weather", message, re.IGNORECASE): group 1 or None
MatchBeforeWeather(message) ==
    LET lower == Lower(message)
        pairs == {p \in (1..Len(message)) \X (2..(Len(message) - 7)) :
                     /\ p[1] < p[2]
                     /\ SubSeq(lower, p[2], p[2] + 7) = " weather"
                     /\ ~Contains(SubSeq(message, p[1], p[2] - 1), "\n")}
    IN IF pairs = {} THEN None
       ELSE LET first == CHOOSE p \in pairs :
                    \A q \in pairs : p[1] < q[1] \/ (p[1] = q[1] /\ p[2] <= q[2])
            IN SubSeq(message, first[1], first[2] - 1)

\* the cleaning applied to a matched group; None when the result is rejected
CleanCity(group) ==
    IF group = None THEN None
    ELSE LET city == RemovePunctuation(Strip(group))
         IN IF city # "" /\ Len(city) <= 20 THEN city ELSE None

\* common_cities without its CJK entries
COMMON_CITIES ==
    <<"Beijing", "Shanghai", "Guangzhou", "Shenzhen", "Hangzhou",
      "Tokyo", "New York", "London", "Paris", "Sydney">>

extract_city_or_first(message) ==
    IF CleanCity(MatchWeatherIn(message)) # None
    THEN CleanCity(MatchWeatherIn(message))
    ELSE IF CleanCity(MatchBeforeWeather(message)) # None
    THEN CleanCity(MatchBeforeWeather(message))
    ELSE LET found == {i \in 1..Len(COMMON_CITIES) :
                          Contains(Lower(message), Lower(COMMON_CITIES[i]))}
         IN COMMON_CITIES[IF found = {} THEN 1
                          ELSE CHOOSE i \in found : \A j \in found : i <= j]

\* _extract_city.  The first three patterns require a CJK literal and match
\* no text of the model.
extract_city(message) ==
    IF CleanCity(MatchWeatherIn(message)) # None
    THEN CleanCity(MatchWeatherIn(message))
    ELSE IF CleanCity(MatchBeforeWeather(message)) # None
    THEN CleanCity(MatchBeforeWeather(message))
    ELSE LET found == {i \in 1..Len(COMMON_CITIES) :
                          Contains(Lower(message), Lower(COMMON_CITIES[i]))}
         IN IF found = {} THEN None
            ELSE COMMON_CITIES[CHOOSE i \in found : \A j \in found : i <= j]

SystemPrompt == "<system_prompt>"

build_weather_prompt(city, weather, forecast) ==
    "<describe_weather_of:" \o city \o ">"
        \o "<city:" \o weather.city \o ">"
        \o "<temperature:" \o weather.temperature \o ">"
        \o "<feels_like:" \o weather.feels_like \o ">"
        \o "<humidity:" \o weather.humidity \o ">"
        \o "<wind_speed:" \o weather.wind_speed \o ">"
        \o "<condition:" \o weather.condition \o ">"
        \o (IF forecast # None /\ forecast # "" THEN "<forecast_header>" \o forecast ELSE "")
        \o "<describe_naturally>"

StageLabel(stage) == "<label:" \o stage \o ">"

report_value_as_stored(ctx, stage) == IF ctx[stage] # None THEN ctx[stage] ELSE ""

\* getattr(self.context, stage, None) or <not provided>: None and the empty
\* string are both falsy
report_value(ctx, stage) ==
    IF ctx[stage] # None /\ ctx[stage] # "" THEN ctx[stage] ELSE "<not_provided>"

RECURSIVE ReportStages(_, _)
ReportStages(ctx, k) ==
    IF k > NumStages THEN ""
    ELSE LET stage == INTERVIEW_STAGES[k]
             value == report_value(ctx, stage)
         IN "### " \o StageLabel(stage) \o "\n" \o value \o "\n\n"
                \o ReportStages(ctx, k + 1)

build_report_prompt(ctx) ==
    "<report_request>" \o "<user_info>" \o ReportStages(ctx, 1)
        \o "\n" \o "<report_requirements>" \o "<report_template>"

Msg(role, content) == [role |-> role, content |-> content]

LastTen_untrimmed(h) == h

\* conversation_history[-10:]
LastTen(h) == IF Len(h) <= 10 THEN h ELSE SubSeq(h, Len(h) - 9, Len(h))

\* the messages argument _generate_streaming_response builds for the collaborator
build_messages(h, user_content) ==
    LET recent == SelectSeq(LastTen(h), LAMBDA m : m.role \in {"user", "assistant"})
        messages == <<Msg("system", SystemPrompt)>> \o recent
    IN IF messages = <<>> \/ messages[Len(messages)].role # "user"
       THEN Append(messages, Msg("user", user_content))
       ELSE messages

error_apology_generic(error_msg) == "<request_problem>"

\* the apology chunk of the except branch of _generate_streaming_response
error_apology(error_msg) ==
    IF Contains(error_msg, "401") \/ Contains(Lower(error_msg), "Unauthorized")
    THEN "<check_api_key>"
    ELSE IF Contains(error_msg, "429") \/ Contains(Lower(error_msg), "rate limit")
    THEN "<service_busy>"
    ELSE IF Contains(Lower(error_msg), "timeout")
    THEN "<connection_timeout>"
    ELSE "<request_problem>"

AskCityMessage == "<which_city>"
CityNotFoundMessage(city) == "<no_weather_found_for:" \o city \o ">"
WeatherErrorMessage(error_msg) == "<weather_problem:" \o error_msg \o "><try_later>"

NoTurn == [caller |-> "none", response |-> "", full_response |-> "", n_deltas |-> 0]

\* what the user types
TxtHello == "hello"
TxtJob == "my job"
TxtWind == "wind"
TxtParis == "weather in Paris"
UserTexts == {TxtHello, TxtJob, TxtWind, TxtParis}
\* what the user types while an interview is active: a short text with a
\* career keyword, a long text with a weather keyword and a city
InterviewTexts == {TxtJob, TxtParis}

\* _detect_intent and _extract_city of each text, computed once
IntentOf == [t \in UserTexts |-> detect_intent(t)]
CityOf == [t \in UserTexts |-> extract_city(t)]

\* what the weather collaborator answers to get_weather(city)
Snapshot(city) ==
    [city |-> city, temperature |-> "21.5", feels_like |-> "20.0",
     humidity |-> "40", wind_speed |-> "12.0", condition |-> "Sunny"]
\* str(e) of the exception requests raised
RequestErrors == {"500 Server Error: Internal Server Error for url"}
\* the texts of the WeatherAPIError get_weather raises: the fixed text of a
\* timeout, or a fixed prefix followed by str(e) of the requests exception
WeatherErrors ==
    {"<weather_service_timed_out>"} \cup {"<fetch_failed>: " \o e : e \in RequestErrors}
\* what get_forecast yields to the handler: None when it raised
Forecasts == {None, "<day:18~25,Sunny>"}

\* what the generation collaborator streams: a delta may have no content
Deltas == {"", "Hi"}
\* the chunks of a longer stream
StreamedDeltas == {"", "Hel", "lo"}
\* what the user types in the turns of a longer stream
StreamTexts == {TxtHello, TxtParis}
GenerationErrors ==
    {"Error code: 401", "unauthorized", "Error code: 429", "Request Timeout", "boom"}
\* the apology chunk for each of them, computed once
ApologyOf == [e \in GenerationErrors |-> error_apology(e)]

\* _generate_streaming_response is entered: the request is built and sent
GenStart(h, user_content, caller, response, n_emitted, earlier) ==
    /\ requests' = Append(earlier,
                          [messages |-> build_messages(h, user_content),
                           user_content |-> user_content,
                           emitted_before |-> n_emitted])
    /\ n_requests' = n_requests + 1
    /\ turn' = [caller |-> caller, response |-> response,
                full_response |-> "", n_deltas |-> 0]
    /\ pc' = "streaming"

\* a handler yields its only chunk, having appended it to the history
YieldOnly(h, response) ==
    /\ conversation_history' = Append(h, Msg("assistant", response))
    /\ emitted' = <<response>>
    /\ pc' = "yielded"
    /\ turn' = NoTurn
    /\ requests' = <<>>
    /\ UNCHANGED n_requests

\* an exception leaves the handler: the generator ends by raising, after the
\* user's message was appended and before any chunk
RaiseOut(h) ==
    /\ conversation_history' = h
    /\ emitted' = <<>>
    /\ requests' = <<>>
    /\ pc' = "raised"
    /\ turn' = NoTurn
    /\ UNCHANGED n_requests

\* process_message while an interview is active: _handle_career_interview up
\* to its first yield
HandleCareerInterview(h, message) ==
    LET r == process_answer(message) IN
    /\ SetPlanner(r)
    /\ IF r.complete
       THEN /\ n_requests < MaxRequests
            /\ in_career_interview' = FALSE
            /\ emitted' = <<r.response \o "\n\n">>
            /\ conversation_history' = h
            /\ turn' = [NoTurn EXCEPT !.caller = "career", !.response = r.response]
            /\ pc' = "career_ack"
            /\ requests' = <<>>
            /\ UNCHANGED n_requests
       ELSE /\ YieldOnly(h, r.response)
            /\ UNCHANGED in_career_interview
    /\ UNCHANGED <<history, persisted, clock, n_lookups>>

\* _handle_weather_query up to its first suspension
HandleWeatherQuery(h, message) ==
    LET city == CityOf[message] IN
    /\ UNCHANGED <<planner_vars, in_career_interview>>
    /\ IF city = None
       THEN /\ YieldOnly(h, AskCityMessage)
            /\ UNCHANGED <<history, persisted, clock, n_lookups>>
       ELSE /\ n_lookups < MaxLookups
            /\ n_lookups' = n_lookups + 1
            /\ \/ \* get_weather raises CityNotFoundError
                  /\ YieldOnly(h, CityNotFoundMessage(city))
                  /\ UNCHANGED <<history, persisted, clock>>
               \/ \* get_weather raises WeatherAPIError
                  /\ \E e \in WeatherErrors : YieldOnly(h, WeatherErrorMessage(e))
                  /\ UNCHANGED <<history, persisted, clock>>
               \/ \* get_weather raises an exception of another class while it
                  \* parses the payload (TypeError, AttributeError): neither
                  \* get_weather nor the handler catches it
                  /\ RaiseOut(h)
                  /\ UNCHANGED <<history, persisted, clock>>
               \/ \* get_weather has called add_entry and _persist_history
                  \* raises OSError: nothing catches it
                  /\ clock' = clock + 1
                  /\ history' = add_entry(history, city, Snapshot(city), clock')
                  /\ UNCHANGED persisted
                  /\ RaiseOut(h)
               \/ \* get_weather returns: the history is written, then the
                  \* forecast is fetched and the description is generated
                  /\ n_requests < MaxRequests
                  /\ clock' = clock + 1
                  /\ history' = add_entry(history, city, Snapshot(city), clock')
                  /\ persisted' = persist_history(history')
                  /\ conversation_history' = h
                  /\ emitted' = <<>>
                  /\ \E forecast \in Forecasts :
                        GenStart(h, build_weather_prompt(city, Snapshot(city), forecast),
                                 "weather", "", 0, <<>>)

HandleCareerQuery_answers_first(h, message) ==
    /\ in_career_interview' = TRUE
    /\ SetPlanner([ResetState EXCEPT !.needs_followup = TRUE])
    /\ YieldOnly(h, generate_followup_question(StageName(0), message))
    /\ UNCHANGED <<history, persisted, clock, n_lookups>>

\* _handle_career_query
HandleCareerQuery(h, message) ==
    /\ in_career_interview' = TRUE
    /\ SetPlanner(ResetState)
    /\ YieldOnly(h, start_interview_text)
    /\ UNCHANGED <<history, persisted, clock, n_lookups>>

\* _handle_general_query up to its first suspension
HandleGeneralQuery(h, message) ==
    /\ n_requests < MaxRequests
    /\ conversation_history' = h
    /\ emitted' = <<>>
    /\ GenStart(h, message, "general", "", 0, <<>>)
    /\ UNCHANGED <<planner_vars, in_career_interview, history, persisted, clock, n_lookups>>

\* the branch process_message takes (lines 141-159)
route_by_intent_first(user_message) ==
    IF IntentOf[user_message] # "general" THEN IntentOf[user_message]
    ELSE IF in_career_interview THEN "interview" ELSE "general"

route_career_by_default(user_message) ==
    IF in_career_interview THEN "interview"
    ELSE IF IntentOf[user_message] = "weather" THEN "weather" ELSE "career"

route(user_message) ==
    IF in_career_interview THEN "interview" ELSE IntentOf[user_message]

TurnAccepted_in_flight == TRUE

\* the chat loop reads the next input only after it has consumed the
\* generator of the turn before (main.py lines 136-155, 333-343)
TurnAccepted == pc = "ready"

initialize_raises_never == FALSE

\* process_message calls initialize() when there is no client yet, and
\* initialize() raises ConfigurationError when the configuration has no API
\* key (agent.py lines 111-112 and 135-136)
initialize_raises == ~client /\ api_key = ""

\* process_message(user_message): the generator runs to its first suspension
ProcessMessage(user_message) ==
    /\ TurnAccepted
    /\ IF initialize_raises
       THEN /\ pc' = "raised"
            /\ emitted' = <<>>
            /\ requests' = <<>>
            /\ turn' = NoTurn
            /\ UNCHANGED <<planner_vars, in_career_interview, conversation_history,
                           history, persisted, clock, n_requests, n_lookups, idle_turns, client>>
       ELSE /\ client' = TRUE
            /\ Len(conversation_history) + 2 <= MaxMessages
            /\ IF in_career_interview
               THEN UNCHANGED idle_turns
               ELSE idle_turns < MaxIdleTurns /\ idle_turns' = idle_turns + 1
            /\ LET h == Append(conversation_history, Msg("user", user_message)) IN
               CASE route(user_message) = "interview" ->
                        HandleCareerInterview(h, user_message)
                 [] route(user_message) = "weather" -> HandleWeatherQuery(h, user_message)
                 [] route(user_message) = "career" -> HandleCareerQuery(h, user_message)
                 [] OTHER -> HandleGeneralQuery(h, user_message)
    /\ UNCHANGED <<ret, n_answers, touched, api_key>>

\* the generator resumes after the acknowledgment chunk (agent.py line 358)
CareerReportStart ==
    /\ pc = "career_ack"
    /\ GenStart(conversation_history, build_report_prompt(context),
                "career", turn.response, Len(emitted), requests)
    /\ UNCHANGED <<planner_vars, ret, n_answers, touched, api_key, client, in_career_interview, conversation_history,
                   history, persisted, clock, emitted, n_lookups, idle_turns>>

StreamChunk_newest_first(delta) ==
    /\ pc = "streaming"
    /\ IF delta # ""
       THEN /\ emitted' = <<delta>> \o emitted
            /\ turn' = [turn EXCEPT !.full_response = @ \o delta, !.n_deltas = @ + 1]
       ELSE UNCHANGED <<emitted, turn>>
    /\ UNCHANGED <<planner_vars, ret, n_answers, touched, api_key, client, in_career_interview, conversation_history,
                   history, persisted, clock, pc, requests, n_requests, n_lookups, idle_turns>>

\* one pass of the loops over the stream (agent.py lines 429-431 and the
\* handler's loop around them): a chunk with content is yielded to the caller
\* and added to the handler's accumulator; one without content is skipped
StreamChunk(delta) ==
    /\ pc = "streaming"
    /\ IF delta # ""
       THEN /\ emitted' = Append(emitted, delta)
            /\ turn' = [turn EXCEPT !.full_response = @ \o delta, !.n_deltas = @ + 1]
       ELSE UNCHANGED <<emitted, turn>>
    /\ UNCHANGED <<planner_vars, ret, n_answers, touched, api_key, client, in_career_interview, conversation_history,
                   history, persisted, clock, pc, requests, n_requests, n_lookups, idle_turns>>

\* the collaborator delivers a chunk
GenDelta(delta) ==
    /\ turn.n_deltas < MaxDeltas
    /\ StreamChunk(delta)

\* the collaborator delivers a chunk of a longer stream
StreamDelta(delta) ==
    /\ turn.n_deltas < MaxStreamDeltas
    /\ StreamChunk(delta)

\* the collaborator fails: the except branch yields one apology chunk
GenFail(error_msg) ==
    /\ pc = "streaming"
    /\ emitted' = Append(emitted, ApologyOf[error_msg])
    /\ turn' = [turn EXCEPT !.full_response = @ \o ApologyOf[error_msg]]
    /\ pc' = "gen_failed"
    /\ UNCHANGED <<planner_vars, ret, n_answers, touched, api_key, client, in_career_interview, conversation_history,
                   history, persisted, clock, requests, n_requests, n_lookups, idle_turns>>

GenEnd_no_message ==
    /\ pc \in {"streaming", "gen_failed"}
    /\ IF turn.caller = "career" THEN SetPlanner(ResetState) ELSE UNCHANGED planner_vars
    /\ pc' = "ready"
    /\ turn' = NoTurn
    /\ UNCHANGED <<ret, n_answers, touched, api_key, client, in_career_interview, conversation_history, history, persisted, clock,
                   emitted, requests, n_requests, n_lookups, idle_turns>>

\* the stream is exhausted: the handler appends the assistant message and ends
GenEnd ==
    /\ pc \in {"streaming", "gen_failed"}
    /\ IF turn.caller = "career"
       THEN /\ conversation_history' =
                  Append(conversation_history,
                         Msg("assistant", turn.response \o "\n\n" \o turn.full_response))
            /\ SetPlanner(ResetState)
       ELSE /\ conversation_history' =
                  Append(conversation_history, Msg("assistant", turn.full_response))
            /\ UNCHANGED planner_vars
    /\ pc' = "ready"
    /\ turn' = NoTurn
    /\ UNCHANGED <<ret, n_answers, touched, api_key, client, in_career_interview, history, persisted, clock, emitted, requests,
                   n_requests, n_lookups, idle_turns>>

\* the consumer resumes a generator that has yielded its only chunk: it ends
TurnEnd ==
    /\ pc = "yielded"
    /\ pc' = "ready"
    /\ UNCHANGED <<planner_vars, ret, n_answers, touched, api_key, client, in_career_interview, conversation_history,
                   history, persisted, clock, turn, emitted, requests, n_requests, n_lookups, idle_turns>>

CancelCareerInterview_keeps_answers ==
    /\ pc = "ready"
    /\ in_career_interview' = FALSE
    /\ UNCHANGED <<planner_vars, ret, n_answers, touched, api_key, client, conversation_history, history, persisted, clock, pc, turn,
                   emitted, requests, n_requests, n_lookups, idle_turns>>

\* the consumer catches the exception a generator raised (main.py line 345)
TurnRaised ==
    /\ pc = "raised"
    /\ pc' = "ready"
    /\ UNCHANGED <<planner_vars, ret, n_answers, touched, api_key, client, in_career_interview, conversation_history,
                   history, persisted, clock, turn, emitted, requests, n_requests, n_lookups, idle_turns>>

\* cancel_career_interview, called between turns
CancelCareerInterview ==
    /\ pc = "ready"
    /\ IF in_career_interview
       THEN /\ in_career_interview' = FALSE
            /\ SetPlanner(ResetState)
       ELSE UNCHANGED <<planner_vars, in_career_interview>>
    /\ UNCHANGED <<ret, n_answers, touched, api_key, client, conversation_history, history, persisted, clock, pc, turn, emitted,
                   requests, n_requests, n_lookups, idle_turns>>

\* clear_conversation, called between turns
ClearConversation ==
    /\ pc = "ready"
    /\ conversation_history' = <<>>
    /\ in_career_interview' = FALSE
    /\ SetPlanner(ResetState)
    /\ emitted' = <<>>
    /\ requests' = <<>>
    /\ idle_turns' = 0
    /\ UNCHANGED <<ret, n_answers, touched, api_key, client, history, persisted, clock, pc, turn, n_requests, n_lookups>>

(***************************************************************************)
(* The history cache driven directly: WeatherHistory.add_entry as called   *)
(* by WeatherService._save_to_history.                                     *)
(***************************************************************************)
\* a second reading of the weather collaborator
RainSnapshot(city) ==
    [city |-> city, temperature |-> "9.0", feels_like |-> "7.5",
     humidity |-> "90", wind_speed |-> "25.0", condition |-> "Rain"]

Readings(city) == {Snapshot(city), RainSnapshot(city)}

\* city names as typed: two of them differ only in letter case
TypedCities == {"Beijing", "beijing", "Shanghai", "Paris"}

\* thirteen cities with different keys, and what may be typed for them
CITY_POOL ==
    <<"Beijing", "Shanghai", "Paris", "London", "Tokyo", "Sydney", "Berlin",
      "Rome", "Madrid", "Cairo", "Lima", "Oslo", "Kyiv">>
PoolNames ==
    {CITY_POOL[k] : k \in 1..Len(CITY_POOL)} \cup {Lower(CITY_POOL[k]) : k \in 1..Len(CITY_POOL)}

\* city.lower() of each name that may be typed, computed once
KeyOf == [c \in PoolNames \cup TypedCities |-> Lower(c)]

\* the keys of the cities touched so far
TouchedKeys == {KeyOf[touched[i]] : i \in 1..Len(touched)}

\* self.history.add_entry(city, weather): datetime.now() advances with each call
AddEntry(city, weather) ==
    /\ pc = "ready"
    /\ clock' = clock + 1
    /\ history' = add_entry(history, city, weather, clock')
    /\ persisted' = persist_history(history')
    /\ touched' = Append(touched, city)
    /\ UNCHANGED <<planner_vars, ret, n_answers, in_career_interview, conversation_history, pc,
                   turn, emitted, requests, n_requests, n_lookups, idle_turns,
                   api_key, client>>

\* any typed name with any reading, a bounded number of times
HistoryTouch(city, weather) ==
    /\ Len(touched) < MaxTouches
    /\ AddEntry(city, weather)

\* self.history.add_entry(city, weather) when datetime.now() has advanced by
\* tick since the call before: two calls may read the same instant
TimedTouch(city, weather, tick) ==
    /\ pc = "ready"
    /\ Len(touched) < MaxTouches
    /\ clock' = clock + tick
    /\ history' = add_entry(history, city, weather, clock')
    /\ persisted' = persist_history(history')
    /\ touched' = Append(touched, city)
    /\ UNCHANGED <<planner_vars, ret, n_answers, in_career_interview, conversation_history, pc,
                   turn, emitted, requests, n_requests, n_lookups, idle_turns,
                   api_key, client>>

\* many different cities: a city not touched before is the next of the pool
\* (the cities are interchangeable), a city touched before may be touched
\* again, in either spelling, a bounded number of times
CacheFill(city) ==
    /\ IF KeyOf[city] \in TouchedKeys
       THEN Len(touched) - Cardinality(TouchedKeys) < MaxRetouches
       ELSE /\ Cardinality(TouchedKeys) < MaxCities
            /\ city = CITY_POOL[Cardinality(TouchedKeys) + 1]
    /\ AddEntry(city, Snapshot(city))

(***************************************************************************)
(* ConfigManager.validate_config (src/terminal/config_manager.py)          *)
(***************************************************************************)
AllIn(s, chars) == \A i \in 1..Len(s) : CharAt(s, i) \in chars

\* the first position at or after i of s that holds no character of chars
RECURSIVE SpanEnd(_, _, _)
SpanEnd(s, i, chars) ==
    IF i <= Len(s) /\ CharAt(s, i) \in chars THEN SpanEnd(s, i + 1, chars) ELSE i

\* the pieces of s between its dots
RECURSIVE SplitDots(_)
SplitDots(s) ==
    LET d == FindFrom(s, ".", 1)
    IN IF d = 0 THEN <<s>>
       ELSE <<Slice(s, 1, d - 1)>> \o SplitDots(Slice(s, d + 1, Len(s)))

\* url_pattern.match(url), the pattern compiled with re.IGNORECASE
url_pattern_match(url) ==
    LET Letters ==
            {CharAt(UpperCase, i) : i \in 1..Len(UpperCase)}
                \cup {CharAt(LowerCase, i) : i \in 1..Len(LowerCase)}
        DigitChars == {"0", "1", "2", "3", "4", "5", "6", "7", "8", "9"}
        \* the characters the host alternatives of the pattern are made of
        HostChars == Letters \cup DigitChars \cup {"-", "."}
        \* [A-Z0-9](?:[A-Z0-9-]{0,61}[A-Z0-9])?
        is_label(l) ==
            /\ Len(l) \in 1..63
            /\ AllIn(l, Letters \cup DigitChars \cup {"-"})
            /\ CharAt(l, 1) # "-"
            /\ CharAt(l, Len(l)) # "-"
        \* (?:label\.)+[A-Z]{2,6}\.?
        is_domain(h) ==
            LET pieces == SplitDots(h)
                p == IF Len(pieces) > 1 /\ pieces[Len(pieces)] = ""
                     THEN SubSeq(pieces, 1, Len(pieces) - 1) ELSE pieces
            IN /\ Len(p) >= 2
               /\ Len(p[Len(p)]) \in 2..6
               /\ AllIn(p[Len(p)], Letters)
               /\ \A i \in 1..(Len(p) - 1) : is_label(p[i])
        \* \d{1,3}\.\d{1,3}\.\d{1,3}\.\d{1,3}
        is_ip(h) ==
            LET p == SplitDots(h)
            IN /\ Len(p) = 4
               /\ \A i \in 1..4 : Len(p[i]) \in 1..3 /\ AllIn(p[i], DigitChars)
        \* (?:/?|[/?]\S+)$ : the end of the text may stand before a final newline
        is_url_tail(t) ==
            LET body == IF t # "" /\ CharAt(t, Len(t)) = "\n"
                        THEN Slice(t, 1, Len(t) - 1) ELSE t
            IN \/ body \in {"", "/"}
               \/ /\ Len(body) >= 2
                  /\ CharAt(body, 1) \in {"/", "?"}
                  /\ \A i \in 2..Len(body) : ~IsSpace(CharAt(body, i))
        l == Lower(url)
        start == IF StartsWith(l, "https://") THEN 9
                 ELSE IF StartsWith(l, "http://") THEN 8 ELSE 0
        host_end == SpanEnd(url, start, HostChars)
        host == Slice(url, start, host_end - 1)
        port_end == IF /\ host_end <= Len(url)
                       /\ CharAt(url, host_end) = ":"
                       /\ SpanEnd(url, host_end + 1, DigitChars) > host_end + 1
                    THEN SpanEnd(url, host_end + 1, DigitChars) ELSE host_end
    IN /\ start # 0
       /\ is_domain(host) \/ Lower(host) = "localhost" \/ is_ip(host)
       /\ is_url_tail(Slice(url, port_end, Len(url)))

\* ValidationResult(is_valid=..., error_message=...)
ValidationResult(is_valid, error_message) ==
    [is_valid |-> is_valid, error_message |-> error_message]

\* not s or not s.strip()
is_blank(s) == s = "" \/ Strip(s) = ""

\* ConfigManager._validate_url
validate_url(url) ==
    IF is_blank(url) THEN ValidationResult(FALSE, "<API Base URL must not be empty>")
    ELSE IF ~url_pattern_match(url)
    THEN ValidationResult(FALSE, "<invalid URL format: " \o url
                                     \o ", enter a valid HTTP/HTTPS URL>")
    ELSE ValidationResult(TRUE, None)

validate_config_model_first(config) ==
    IF is_blank(config.api_key)
    THEN ValidationResult(FALSE, "<API Key must not be empty, enter a valid API Key>")
    ELSE IF is_blank(config.model)
    THEN ValidationResult(FALSE, "<model name must not be empty, choose or enter a model name>")
    ELSE IF ~validate_url(config.base_url).is_valid
    THEN validate_url(config.base_url)
    ELSE IF is_blank(config.provider)
    THEN ValidationResult(FALSE, "<provider must not be empty, choose a provider>")
    ELSE ValidationResult(TRUE, None)

\* ConfigManager.validate_config
validate_config(config) ==
    IF is_blank(config.api_key)
    THEN ValidationResult(FALSE, "<API Key must not be empty, enter a valid API Key>")
    ELSE IF ~validate_url(config.base_url).is_valid
    THEN validate_url(config.base_url)
    ELSE IF is_blank(config.model)
    THEN ValidationResult(FALSE, "<model name must not be empty, choose or enter a model name>")
    ELSE IF is_blank(config.provider)
    THEN ValidationResult(FALSE, "<provider must not be empty, choose a provider>")
    ELSE ValidationResult(TRUE, None)

\* the fields of the configurations validated
BlankTexts == {"", " "}
WellFormedUrls ==
    {"https://api.openai.com/v1", "http://localhost:8000", "https://10.0.0.1/v1"}
Configs ==
    LET MalformedUrls ==
            {"ftp://api.openai.com/v1", "api.openai.com/v1", "https://bad host/v1",
             "https://"}
    IN [provider : BlankTexts \cup {"openai"},
        base_url : BlankTexts \cup WellFormedUrls \cup MalformedUrls,
        api_key : BlankTexts \cup {"sk-test"},
        model : BlankTexts \cup {"gpt-4o"}]

\* validate_config(config) is called; the call and its result are recorded
ValidateConfig(config) ==
    /\ pc = "ready"
    /\ ret' = [op |-> "validate_config", answer |-> config,
               complete |-> validate_config(config).is_valid,
               response |-> validate_config(config).error_message]
    /\ UNCHANGED <<planner_vars, agent_vars, n_answers>>

(***************************************************************************)
(* Documents saved and loaded: save_to_file then load_from_file.           *)
(***************************************************************************)
\* city names with characters JSON escapes
DocCities == {"Paris", "\"Oslo\"", "a\\b"}
\* configurations with characters JSON escapes
DocConfigs ==
    [provider : {"custom"},
     base_url : {"https://api.openai.com/v1", "http://localhost:8000/?q=\"x\""},
     api_key : {"", "sk-test", "k\\\"1"},
     model : {"gpt-4o", "my \"model\""}]

\* a lookup that fills the history document
DocTouch(city, weather) ==
    /\ Len(touched) < MaxDocTouches
    /\ AddEntry(city, weather)

\* history.save_to_file(path) then WeatherHistory.load_from_file(path); the
\* document saved and the document loaded are recorded
HistoryRoundTrip ==
    LET doc == [entries |-> history, max_entries |-> MAX_ENTRIES] IN
    /\ pc = "ready"
    /\ ret' = [op |-> "history_round_trip", answer |-> doc, complete |-> TRUE,
               response |-> history_from_json(history_to_json(doc))]
    /\ UNCHANGED <<planner_vars, agent_vars, n_answers>>

\* config.save_to_file(path) then APIConfig.load_from_file(path)
ConfigRoundTrip(config) ==
    /\ pc = "ready"
    /\ ret' = [op |-> "config_round_trip", answer |-> config, complete |-> TRUE,
               response |-> config_from_json(config_to_json(config))]
    /\ UNCHANGED <<planner_vars, agent_vars, n_answers>>

(***************************************************************************)
(* The classifier driven directly: AgentCore._detect_intent.               *)
(***************************************************************************)
\* the pieces the classified texts are made of: no keyword, Weather keywords
\* and Career keywords in several letter cases
WeatherParts == {"Weather ", "WIND ", "forecast "}
CareerParts == {"job ", "Plan ", "SALARY "}
TextParts == {"", "hi "} \cup WeatherParts \cup CareerParts
IntentTexts == {a \o b \o c : a \in TextParts, b \in TextParts, c \in TextParts}

\* _detect_intent(message) is called; the call and its result are recorded
DetectIntent(message) ==
    /\ pc = "ready"
    /\ ret' = [op |-> "_detect_intent", answer |-> message, complete |-> FALSE,
               response |-> detect_intent(message)]
    /\ UNCHANGED <<planner_vars, agent_vars, n_answers>>

\* the state after AgentCore(config) with config.api_key = key
Created(key) ==
    /\ context = ResetState.context
    /\ current_stage = ResetState.current_stage
    /\ collected_info = ResetState.collected_info
    /\ needs_followup = ResetState.needs_followup
    /\ ret = NoRet
    /\ n_answers = 0
    /\ in_career_interview = FALSE
    /\ conversation_history = <<>>
    /\ history = <<>>
    /\ persisted = <<>>
    /\ clock = 0
    /\ pc = "ready"
    /\ turn = NoTurn
    /\ emitted = <<>>
    /\ requests = <<>>
    /\ n_requests = 0
    /\ n_lookups = 0
    /\ idle_turns = 0
    /\ touched = <<>>
    /\ api_key = key
    /\ client = FALSE

\* the agent is created with a configuration that has an API key
Init == Created("sk-test")

\* the agent is created with any configuration: without an API key, or with one
InitAnyConfig == \E key \in {"", "sk-test"} : Created(key)

NextPlanner ==
    \/ PlannerStartInterview
    \/ \E answer \in Answers : PlannerProcessAnswer(answer)
    \/ PlannerReset

SpecPlanner == Init /\ [][NextPlanner]_vars

Next ==
    \/ \E user_message \in (IF in_career_interview THEN InterviewTexts ELSE UserTexts) :
          ProcessMessage(user_message)
    \/ CareerReportStart
    \/ \E delta \in Deltas : GenDelta(delta)
    \/ \E error_msg \in GenerationErrors : GenFail(error_msg)
    \/ GenEnd
    \/ TurnEnd
    \/ TurnRaised
    \/ CancelCareerInterview
    \/ ClearConversation

Spec == Init /\ [][Next]_vars

NextHistory ==
    \E city \in TypedCities : \E weather \in Readings(city) : HistoryTouch(city, weather)

SpecHistory == Init /\ [][NextHistory]_vars

NextCacheFill == \E city \in PoolNames : CacheFill(city)

SpecCacheFill == Init /\ [][NextCacheFill]_vars

NextStream ==
    \/ \E user_message \in StreamTexts : ProcessMessage(user_message)
    \/ \E delta \in StreamedDeltas : StreamDelta(delta)
    \/ \E error_msg \in GenerationErrors : GenFail(error_msg)
    \/ GenEnd
    \/ TurnEnd
    \/ TurnRaised

SpecStream == Init /\ [][NextStream]_vars

NextIntent == \E message \in IntentTexts : DetectIntent(message)

SpecIntent == Init /\ [][NextIntent]_vars

SpecAnyConfig == InitAnyConfig /\ [][NextStream]_vars

NextValidate == \E config \in Configs : ValidateConfig(config)

SpecValidate == Init /\ [][NextValidate]_vars

NextRoundTrip ==
    \/ \E city \in DocCities : \E weather \in Readings(city) : DocTouch(city, weather)
    \/ HistoryRoundTrip
    \/ \E config \in DocConfigs : ConfigRoundTrip(config)

SpecRoundTrip == Init /\ [][NextRoundTrip]_vars

NextTimed ==
    \E city \in {"Beijing", "beijing", "Shanghai", "Paris"} : \E tick \in {0, 1} :
        TimedTouch(city, Snapshot(city), tick)

SpecTimed == Init /\ [][NextTimed]_vars

(***************************************************************************)
(* Properties of the interview engine, checked under SpecPlanner.          *)
(***************************************************************************)
TrimmedLength(answer) == Len(Strip(answer))

IsFollowup(response) == StartsWith(response, "<short_answer>")

StagesInOrder ==
    <<"basic_info", "interests", "skills", "experience", "goals", "preferences">>

\* C1: at a stage below 6 a short answer (trimmed length below 10) given with
\* no follow-up pending returns (False, the stage's follow-up prompt), leaves
\* the stage where it is and sets the flag; a short answer given with the
\* follow-up pending is accepted: stored verbatim under the stage, the stage
\* advances by one, the flag is cleared and no second follow-up is returned.
C1_BoundedFollowup ==
    [][\A answer \in Answers :
         (PlannerProcessAnswer(answer) /\ current_stage < 6
            /\ TrimmedLength(answer) < 10) =>
           IF ~needs_followup
           THEN /\ ret'.complete = FALSE
                /\ IsFollowup(ret'.response)
                /\ Contains(ret'.response,
                            "<followup:" \o StagesInOrder[current_stage + 1] \o ">")
                /\ current_stage' = current_stage
                /\ needs_followup' = TRUE
           ELSE /\ ~IsFollowup(ret'.response)
                /\ collected_info'[StagesInOrder[current_stage + 1]] = answer
                /\ context'[StagesInOrder[current_stage + 1]] = answer
                /\ current_stage' = current_stage + 1
                /\ needs_followup' = FALSE]_vars

\* a short answer has been force-accepted after a follow-up
C1_Witness ==
    /\ ret.op = "process_answer"
    /\ current_stage = 2
    /\ ~needs_followup
    /\ collected_info["interests"] = AnsOk
    /\ TrimmedLength(collected_info["interests"]) < 10

\* C2: a process_answer call never decreases current_stage and keeps it in
\* 0..6; it returns complete = True iff current_stage is 6 after the call;
\* get_progress() is current_stage / 6, is 1.0 iff the call reported
\* completion and never exceeds 1.0.
C2_ProgressMonotone ==
    [][\A answer \in Answers :
         PlannerProcessAnswer(answer) =>
           /\ current_stage' >= current_stage
           /\ current_stage' \in 0..6
           /\ ret'.complete <=> (current_stage' = 6)
           /\ get_progress' = <<current_stage', 6>>
           /\ get_progress'[1] <= get_progress'[2]
           /\ (get_progress'[1] = get_progress'[2]) <=> ret'.complete]_vars

\* the sixth answer has just been accepted
C2_Witness ==
    /\ ret.op = "process_answer"
    /\ ret.complete
    /\ current_stage = 6
    /\ get_progress = <<6, 6>>

\* C10: a process_answer call leaves the stage or advances it by exactly one;
\* when it advances, the answer is stored under the stage that was current
\* and nothing else is touched; the stages stored are always the first
\* current_stage stages of the order basic_info, interests, skills,
\* experience, goals, preferences.
C10_StageOrder ==
    /\ [](DOMAIN collected_info = {StagesInOrder[i] : i \in 1..current_stage})
    /\ [][\A answer \in Answers :
            PlannerProcessAnswer(answer) =>
              \/ /\ current_stage' = current_stage
                 /\ collected_info' = collected_info
                 /\ context' = context
              \/ /\ current_stage' = current_stage + 1
                 /\ current_stage < 6
                 /\ collected_info'[StagesInOrder[current_stage + 1]] = answer
                 /\ context'[StagesInOrder[current_stage + 1]] = answer
                 /\ \A s \in DOMAIN collected_info :
                       collected_info'[s] = collected_info[s]
                 /\ \A i \in 1..6 : i # current_stage + 1 =>
                       context'[StagesInOrder[i]] = context[StagesInOrder[i]]]_vars

\* all six stages have been answered, each with a different answer
C10_Witness ==
    /\ current_stage = 6
    /\ collected_info = [s \in {StagesInOrder[i] : i \in 1..6} |->
           CASE s = "basic_info" -> AnsTen
             [] s = "interests" -> AnsOk
             [] s = "skills" -> AnsLong
             [] s = "experience" -> AnsPadded
             [] s = "goals" -> AnsNine
             [] OTHER -> AnsEmpty]

\* C11: while a stage is left, an answer whose trimmed length is at least 10
\* is accepted whether or not a follow-up is pending: it is stored under the
\* current stage, current_stage advances by exactly one and the flag is
\* cleared; the call reports completion iff it was the sixth acceptance, and
\* the progress after it is (current_stage + 1) / 6.  start_interview puts
\* the stage at 0, so k such answers from the start give progress k / 6.
C11_SufficientAccepted ==
    [][/\ PlannerStartInterview => (current_stage' = 0 /\ get_progress' = <<0, 6>>)
       /\ \A answer \in Answers :
            (PlannerProcessAnswer(answer) /\ current_stage < 6
               /\ TrimmedLength(answer) >= 10) =>
              /\ current_stage' = current_stage + 1
              /\ needs_followup' = FALSE
              /\ ~IsFollowup(ret'.response)
              /\ collected_info'[StagesInOrder[current_stage + 1]] = answer
              /\ context'[StagesInOrder[current_stage + 1]] = answer
              /\ get_progress' = <<current_stage + 1, 6>>
              /\ ret'.complete <=> (current_stage = 5)]_vars

\* six answers of trimmed length 10 or more have completed the interview
C11_Witness ==
    /\ ret.op = "process_answer"
    /\ ret.answer = AnsTen
    /\ ret.complete
    /\ current_stage = 6
    /\ \A i \in 1..6 : collected_info[StagesInOrder[i]] \in {AnsTen, AnsLong}
    /\ collected_info["goals"] = AnsLong

\* a stage's section of the report prompt: the label line, then the text
Section(i, text) == "### <label:" \o StagesInOrder[i] \o ">\n" \o text \o "\n\n"

\* the report prompt whose six sections, in stage order, show the given texts
PromptShowing(texts) ==
    "<report_request><user_info>"
        \o Section(1, texts[1]) \o Section(2, texts[2]) \o Section(3, texts[3])
        \o Section(4, texts[4]) \o Section(5, texts[5]) \o Section(6, texts[6])
        \o "\n<report_requirements><report_template>"

\* C12 as stated: once the interview is complete the report prompt holds the
\* six stages in stage order, each label followed by the answer stored for
\* that stage.
C12_ReportRendersAnswers ==
    current_stage = 6 =>
        build_report_prompt(context) =
            PromptShowing([i \in 1..6 |-> collected_info[StagesInOrder[i]]])

\* what the prompt shows for a stored answer
Rendered(answer) == IF answer = "" THEN "<not_provided>" ELSE answer

\* C12, amended: once the interview is complete the report prompt holds the
\* six stages in stage order, each label followed by the answer stored for
\* that stage, except that a stored empty answer (force-accepted after a
\* follow-up) is rendered as the not-provided placeholder.
C12_ReportRendersNonEmpty ==
    current_stage = 6 =>
        /\ \A i \in 1..6 : context[StagesInOrder[i]] = collected_info[StagesInOrder[i]]
        /\ build_report_prompt(context) =
              PromptShowing([i \in 1..6 |-> Rendered(collected_info[StagesInOrder[i]])])

\* an interview completed with a force-accepted empty answer, a force-accepted
\* short answer and sufficient answers
C12_Witness ==
    /\ current_stage = 6
    /\ collected_info["basic_info"] = AnsTen
    /\ collected_info["interests"] = AnsEmpty
    /\ collected_info["skills"] = AnsOk
    /\ collected_info["preferences"] = AnsLong
    /\ Contains(build_report_prompt(context), "### <label:interests>\n<not_provided>\n\n")

\* the follow-up prompt of a stage, as text
FollowupPrompt(stage) ==
    "<short_answer><followup:" \o stage \o ">\n\n<examples:" \o stage \o ">"

\* C28: an answer of trimmed length below 10 given at a stage below 6 with no
\* follow-up pending changes nothing but the follow-up flag, which becomes
\* true: the stage, the stored answers and the career context stay as they
\* were, so the answer is kept nowhere, and the call returns (False, the
\* follow-up prompt of the current stage).
C28_FollowupFrame ==
    [][\A answer \in Answers :
         (/\ current_stage < 6
          /\ ~needs_followup
          /\ TrimmedLength(answer) < 10
          /\ PlannerProcessAnswer(answer)) =>
            /\ needs_followup' = TRUE
            /\ current_stage' = current_stage
            /\ collected_info' = collected_info
            /\ context' = context
            /\ UNCHANGED agent_vars
            /\ ret'.complete = FALSE
            /\ ret'.response = FollowupPrompt(StagesInOrder[current_stage + 1])]_vars

\* a short answer at the third stage has just been answered by the follow-up
\* prompt of that stage, the two earlier answers being stored
C28_Witness ==
    /\ ret.op = "process_answer"
    /\ ret.answer = AnsOk
    /\ ret.response = FollowupPrompt("skills")
    /\ current_stage = 2
    /\ needs_followup
    /\ DOMAIN collected_info = {"basic_info", "interests"}
    /\ context["skills"] = None

\* C29: once current_stage is 6, a process_answer call, whatever its answer
\* and however many calls came before, returns complete = True with the
\* completion acknowledgment and leaves the stage, the stored answers, the
\* career context and the follow-up flag as they were.
C29_CompleteIsIdempotent ==
    [][\A answer \in Answers :
         (current_stage = 6 /\ PlannerProcessAnswer(answer)) =>
            /\ ret'.complete = TRUE
            /\ ret'.response = "<already_complete>"
            /\ UNCHANGED planner_vars
            /\ UNCHANGED agent_vars]_vars

\* the interview was complete and two further calls were made, the last one
\* with an empty answer
C29_Witness ==
    /\ current_stage = 6
    /\ ret.op = "process_answer"
    /\ ret.answer = AnsEmpty
    /\ ret.complete
    /\ ret.response = "<already_complete>"
    /\ DOMAIN collected_info = {StagesInOrder[i] : i \in 1..6}

\* C35: in every reachable state of the interview the stored answers are
\* exactly those of the stages already passed: collected_info has an entry
\* for each of the first current_stage stages and none for the current stage
\* or a later one, also while a follow-up is pending and after a reset.
C35_AnswersOfPassedStages ==
    /\ current_stage \in 0..6
    /\ \A i \in 1..6 : (StagesInOrder[i] \in DOMAIN collected_info) <=> (i <= current_stage)

\* two stages are passed, the second with an empty answer accepted after its
\* follow-up; the answer to the third has just been turned down
C35_Witness ==
    /\ current_stage = 2
    /\ needs_followup
    /\ ret.op = "process_answer"
    /\ ret.answer = AnsNine
    /\ collected_info["interests"] = AnsEmpty
    /\ DOMAIN collected_info = {"basic_info", "interests"}

\* C36: an interview started with start_interview always completes within
\* 12 answers and never before 6: the call that reports completion is the
\* 6th to the 12th, no interview is past its 12th call without being
\* complete, and a stage takes at most two calls.
C36_CompletesInSixToTwelve ==
    /\ (ret.op = "process_answer" /\ ret.complete
           /\ ret.response # AlreadyCompleteMessage) => n_answers \in 6..12
    /\ n_answers >= 12 => current_stage = 6
    /\ current_stage = 6 => n_answers >= 6
    /\ n_answers <= 2 * current_stage + (IF needs_followup THEN 1 ELSE 0)

\* every stage took a follow-up: the 12th answer has completed the interview
C36_Witness ==
    /\ ret.op = "process_answer"
    /\ ret.complete
    /\ ret.response # AlreadyCompleteMessage
    /\ n_answers = 12
    /\ current_stage = 6

\* C37: the two progress trackers agree: after any sequence of
\* process_answer calls CareerContext.get_progress() equals
\* CareerPlanner.get_progress() and CareerContext.is_complete() equals
\* CareerPlanner.is_complete().
C37_TrackersAgree ==
    /\ context_get_progress(context) = get_progress
    /\ context_is_complete(context) <=> is_complete

(***************************************************************************)
(* Properties of the orchestrator, checked under Spec.                     *)
(***************************************************************************)
PlannerIsReset ==
    /\ current_stage = 0
    /\ collected_info = <<>>
    /\ \A i \in 1..6 : context[StagesInOrder[i]] = None
    /\ needs_followup = FALSE

IsPrefix(a, b) == Len(a) <= Len(b) /\ SubSeq(b, 1, Len(a)) = a

LastMessage == conversation_history[Len(conversation_history)]

CompletionAck == "<collection_done>\n\n<progress:6/6>\n\n<thanks>"

\* C3: in every reachable state either the agent is Idle and the planner is
\* in its reset state, or the agent is InInterview and the stage is below 6.
C3_ModeInvariant ==
    \/ ~in_career_interview /\ PlannerIsReset
    \/ in_career_interview /\ current_stage < 6

\* the same, required only while no turn is in progress
C3_BetweenTurns == pc = "ready" => C3_ModeInvariant

\* C4: in the turn in which process_answer reports completion the
\* acknowledgment is the first chunk, exactly one generation request follows
\* it, and the messages of that request contain the report prompt built from
\* the six collected answers.
C4_ReportRequest ==
    (turn.caller = "career" /\ pc \in {"streaming", "gen_failed"}) =>
        /\ emitted[1] = CompletionAck \o "\n\n"
        /\ Len(requests) = 1
        /\ requests[1].emitted_before = 1
        /\ \E i \in 1..Len(requests[1].messages) :
              requests[1].messages[i].content = build_report_prompt(context)

\* the part of C4 about the order of the acknowledgment and the request
C4_AckThenOneRequest ==
    (turn.caller = "career" /\ pc \in {"streaming", "gen_failed"}) =>
        /\ emitted[1] = CompletionAck \o "\n\n"
        /\ Len(requests) = 1
        /\ requests[1].emitted_before = 1
        /\ requests[1].user_content = build_report_prompt(context)

\* C5: on a Weather turn whose lookup succeeds the messages of the generation
\* request contain the prompt built from the fetched snapshot: its
\* temperature, feels-like, humidity, wind speed and condition.
C5_WeatherRequest ==
    (turn.caller = "weather" /\ pc \in {"streaming", "gen_failed"}) =>
        /\ Len(requests) = 1
        /\ \E i \in 1..Len(requests[1].messages) :
              LET content == requests[1].messages[i].content
                  snapshot == history[1].last_weather
              IN /\ Contains(content, "<temperature:" \o snapshot.temperature \o ">")
                 /\ Contains(content, "<feels_like:" \o snapshot.feels_like \o ">")
                 /\ Contains(content, "<humidity:" \o snapshot.humidity \o ">")
                 /\ Contains(content, "<wind_speed:" \o snapshot.wind_speed \o ">")
                 /\ Contains(content, "<condition:" \o snapshot.condition \o ">")

\* the prompt is built from the snapshot and handed to the streamer
C5_PromptBuilt ==
    (turn.caller = "weather" /\ pc \in {"streaming", "gen_failed"}) =>
        /\ Len(requests) = 1
        /\ requests[1].user_content =
              build_weather_prompt(history[1].city, history[1].last_weather, None)
           \/ requests[1].user_content =
              build_weather_prompt(history[1].city, history[1].last_weather,
                                   "<day:18~25,Sunny>")

\* C6: a turn starts by appending the user's text with role user.  A turn
\* that yields a single chunk has appended it as the assistant message when
\* it yields; a turn that streams appends nothing more until the stream has
\* ended and then appends exactly one assistant message.  No step of a turn
\* removes or alters a message.  So a turn that runs to completion (one that
\* does not end by raising) appends exactly two messages: user, assistant.
C6_TwoMessagesPerTurn ==
    /\ [](/\ pc = "yielded" =>
                /\ Len(conversation_history) >= 2
                /\ LastMessage = [role |-> "assistant", content |-> emitted[1]]
                /\ conversation_history[Len(conversation_history) - 1].role = "user"
          /\ pc \in {"career_ack", "streaming", "gen_failed"} =>
                Len(conversation_history) >= 1 /\ LastMessage.role = "user")
    /\ [][/\ ClearConversation \/ IsPrefix(conversation_history, conversation_history')
          /\ \A t \in UserTexts :
                ProcessMessage(t) =>
                  /\ Len(conversation_history') =
                        Len(conversation_history) + (IF pc' = "yielded" THEN 2 ELSE 1)
                  /\ conversation_history'[Len(conversation_history) + 1] =
                        [role |-> "user", content |-> t]
          /\ (pc \in {"streaming", "gen_failed"} /\ pc' = "ready") =>
                /\ Len(conversation_history') = Len(conversation_history) + 1
                /\ LastMessage'.role = "assistant"
          /\ (pc \in {"yielded", "raised"} /\ pc' = "ready") =>
                conversation_history' = conversation_history
          /\ (pc # "ready" /\ pc' # "ready") =>
                conversation_history' = conversation_history]_vars

\* the turn that completes an interview has run to completion
C6_Witness ==
    /\ pc = "ready"
    /\ Len(conversation_history) = 14
    /\ LastMessage.role = "assistant"
    /\ StartsWith(LastMessage.content, CompletionAck)
    /\ conversation_history[13] = [role |-> "user", content |-> TxtParis]

\* C7: a turn taken while InInterview goes to process_answer whatever
\* keywords the text holds: no weather lookup, no history write, no restart
\* of the interview, and no generation request unless the answer completes
\* the interview.
C7_InterviewTurn ==
    /\ [](pc = "yielded" => requests = <<>>)
    /\ [][\A t \in InterviewTexts :
            (ProcessMessage(t) /\ in_career_interview) =>
              /\ detect_intent(t) # "general"
              /\ n_lookups' = n_lookups
              /\ history' = history
              /\ clock' = clock
              /\ n_requests' = n_requests
              /\ requests' = <<>>
              /\ current_stage' >= current_stage
              /\ \A st \in DOMAIN collected_info :
                    st \in DOMAIN collected_info'
                       /\ collected_info'[st] = collected_info[st]
              /\ IF current_stage' = 6
                 THEN pc' = "career_ack" /\ ~in_career_interview'
                 ELSE pc' = "yielded" /\ in_career_interview'
              /\ \/ current_stage' = current_stage + 1
                       /\ collected_info'[StagesInOrder[current_stage + 1]] = t
                 \/ current_stage' = current_stage /\ needs_followup'
                       /\ TrimmedLength(t) < 10]_vars

\* a text with a weather keyword and a city has been taken as the answer of
\* the second stage
C7_Witness ==
    /\ in_career_interview
    /\ pc = "yielded"
    /\ current_stage = 2
    /\ collected_info["interests"] = TxtParis
    /\ conversation_history[Len(conversation_history) - 1].content = TxtParis
    /\ history = <<>>
    /\ n_lookups = 0

\* C8: an Idle turn classified Career switches to InInterview with a fresh
\* planner, yields exactly one chunk, the welcome text with the first
\* stage's question, stores no answer and makes no generation request.
C8_CareerStart ==
    [][\A t \in UserTexts :
         (ProcessMessage(t) /\ ~in_career_interview /\ detect_intent(t) = "career") =>
           /\ in_career_interview'
           /\ PlannerIsReset'
           /\ Len(emitted') = 1
           /\ StartsWith(emitted'[1], "<welcome>")
           /\ Contains(emitted'[1], "<question:basic_info>")
           /\ pc' = "yielded"
           /\ n_requests' = n_requests
           /\ requests' = <<>>
           /\ LastMessage' = [role |-> "assistant", content |-> emitted'[1]]]_vars

\* the interview has just been started by a text with a career keyword
C8_Witness ==
    /\ pc = "yielded"
    /\ in_career_interview
    /\ current_stage = 0
    /\ Len(conversation_history) = 2
    /\ conversation_history[1] = [role |-> "user", content |-> TxtJob]
    /\ StartsWith(emitted[1], "<welcome>")

\* C9: when the turn that completes an interview ends, and when cancel is
\* invoked on an active interview, the agent is Idle and the planner is
\* reset; cancel with no active interview changes nothing.
C9_ResetAfterInterview ==
    [][/\ (pc \in {"streaming", "gen_failed"} /\ turn.caller = "career" /\ pc' = "ready") =>
             ~in_career_interview' /\ PlannerIsReset'
       /\ (CancelCareerInterview /\ in_career_interview) =>
             /\ ~in_career_interview'
             /\ PlannerIsReset'
             /\ UNCHANGED <<conversation_history, history>>
       /\ (CancelCareerInterview /\ ~in_career_interview) => UNCHANGED vars]_vars

\* an interview with one accepted answer has been cancelled
C9_Witness ==
    /\ pc = "ready"
    /\ ~in_career_interview
    /\ PlannerIsReset
    /\ Len(conversation_history) = 4
    /\ conversation_history[3] = [role |-> "user", content |-> TxtParis]
    /\ StartsWith(LastMessage.content, "<progress:1/6>")

\* what a Weather turn whose lookup failed must look like: one apology chunk,
\* the not-found text or a service-error text, Idle, no request, no write
FailedLookupOutcome(t) ==
    /\ Len(emitted') = 1
    /\ \/ emitted'[1] = CityNotFoundMessage(extract_city(t))
       \/ \E e \in WeatherErrors : emitted'[1] = WeatherErrorMessage(e)
    /\ \A e \in WeatherErrors :
          CityNotFoundMessage(extract_city(t)) # WeatherErrorMessage(e)
    /\ ~in_career_interview'
    /\ n_requests' = n_requests
    /\ requests' = <<>>
    /\ history' = history
    /\ clock' = clock

\* C18: when the lookup of a Weather turn fails (a lookup is made and no
\* description is generated) the turn emits exactly one apology chunk, the
\* not-found message differs from the service-error message, the mode stays
\* Idle, no generation request is made and the history is not written.
C18_LookupFailure ==
    [][\A t \in UserTexts :
         (ProcessMessage(t) /\ ~in_career_interview /\ detect_intent(t) = "weather"
            /\ n_lookups' = n_lookups + 1 /\ pc' # "streaming") =>
           FailedLookupOutcome(t)]_vars

\* the same, for the failures the handler catches (CityNotFoundError and
\* WeatherAPIError)
C18_CaughtFailures ==
    [][\A t \in UserTexts :
         (ProcessMessage(t) /\ ~in_career_interview /\ detect_intent(t) = "weather"
            /\ n_lookups' = n_lookups + 1 /\ pc' = "yielded") =>
           FailedLookupOutcome(t)]_vars

\* the four apology texts of the streamer, one per error category
Apologies ==
    {"<check_api_key>", "<service_busy>", "<connection_timeout>", "<request_problem>"}

\* C19: when the generation collaborator fails, before or after deltas, the
\* streamer raises nothing and emits exactly one apology chunk after the
\* chunks already forwarded: the Unauthorized apology for an error text with
\* 401, the RateLimited one for 429, the Timeout one for a timeout, the
\* generic one otherwise.  The apology is the last chunk of the turn, which
\* then ends with its assistant message.
C19_OneApology ==
    [][/\ pc' = "gen_failed" =>
             /\ emitted' # <<>>
             /\ emitted'[Len(emitted')] \in Apologies
             /\ \A i \in 1..(Len(emitted') - 1) : emitted'[i] \notin Apologies
       /\ pc = "streaming" => pc' \in {"streaming", "gen_failed", "ready"}
       /\ pc' = "gen_failed" => pc = "streaming"
       /\ \A error_msg \in GenerationErrors :
             GenFail(error_msg) =>
               /\ pc' = "gen_failed"
               /\ Len(emitted') = Len(emitted) + 1
               /\ IsPrefix(emitted, emitted')
               /\ error_msg = "Error code: 401" =>
                     emitted'[Len(emitted')] = "<check_api_key>"
               /\ error_msg = "Error code: 429" =>
                     emitted'[Len(emitted')] = "<service_busy>"
               /\ error_msg = "Request Timeout" =>
                     emitted'[Len(emitted')] = "<connection_timeout>"
               /\ error_msg = "boom" =>
                     emitted'[Len(emitted')] = "<request_problem>"
       /\ pc = "gen_failed" =>
             /\ pc' = "ready"
             /\ emitted' = emitted
             /\ Len(conversation_history') = Len(conversation_history) + 1
             /\ LastMessage'.role = "assistant"]_vars

\* a stream that failed after one delta: the delta, then the apology
C19_Witness ==
    /\ pc = "gen_failed"
    /\ turn.n_deltas = 1
    /\ emitted = <<"Hi", "<service_busy>">>

\* C22: the message shown for a weather API error never contains the raw
\* text of the underlying error.
C22_NoRawErrorText ==
    [][\A t \in UserTexts :
         (ProcessMessage(t) /\ n_lookups' = n_lookups + 1 /\ pc' = "yielded") =>
           \A e \in RequestErrors : ~Contains(emitted'[1], e)]_vars

\* C23: one turn is processed at a time.  A user message is appended only
\* when no turn is in flight; while a turn is in flight the message list
\* changes only by that turn's assistant message as it ends, the mode does
\* not change and the interview state changes only by the reset that ends a
\* report turn; so the message list never holds two assistant messages in a
\* row.
C23_OneTurnAtATime ==
    /\ [](\A i \in 1..(Len(conversation_history) - 1) :
            ~(/\ conversation_history[i].role = "assistant"
              /\ conversation_history[i + 1].role = "assistant"))
    /\ [][/\ (/\ Len(conversation_history') > Len(conversation_history)
              /\ conversation_history'[Len(conversation_history) + 1].role = "user") =>
                pc = "ready"
          /\ pc # "ready" =>
                /\ in_career_interview' = in_career_interview
                /\ \/ conversation_history' = conversation_history
                   \/ /\ pc' = "ready"
                      /\ Len(conversation_history') = Len(conversation_history) + 1
                      /\ LastMessage'.role = "assistant"
                /\ \/ UNCHANGED planner_vars
                   \/ pc' = "ready" /\ turn.caller = "career"]_vars

\* a stream is in flight in the second turn of a conversation
C23_Witness ==
    /\ pc = "streaming"
    /\ turn.n_deltas = 1
    /\ Len(conversation_history) = 3
    /\ conversation_history[2].role = "assistant"

\* C25: with a configuration that has no API key, process_message raises
\* ConfigurationError before the turn is processed: no chunk is emitted, no
\* message is appended, and the mode, the interview state and the history
\* cache stay as they were.
C25_NoKeyNoTurn ==
    [][\A t \in UserTexts :
         (ProcessMessage(t) /\ api_key = "") =>
           /\ pc' = "raised"
           /\ emitted' = <<>>
           /\ requests' = <<>>
           /\ conversation_history' = conversation_history
           /\ in_career_interview' = in_career_interview
           /\ history' = history
           /\ UNCHANGED planner_vars]_vars

\* process_message has raised for want of an API key
C25_Witness ==
    /\ api_key = ""
    /\ pc = "raised"
    /\ ~client
    /\ conversation_history = <<>>

\* C21: a turn in which the weather lookup fails, and a stream in which the
\* generation fails, gives the user a non-empty chunk at that point and
\* leaves the interview state and the history cache as they were.
C21_FailuresVisible ==
    [][/\ \A t \in UserTexts :
            (ProcessMessage(t) /\ n_lookups' = n_lookups + 1 /\ pc' # "streaming") =>
              /\ emitted' # <<>>
              /\ emitted'[Len(emitted')] # ""
              /\ history' = history
              /\ UNCHANGED planner_vars
       /\ \A error_msg \in GenerationErrors :
            GenFail(error_msg) =>
              /\ emitted' # <<>>
              /\ emitted'[Len(emitted')] # ""
              /\ history' = history
              /\ UNCHANGED planner_vars]_vars

(***************************************************************************)
(* Properties of a longer stream, checked under SpecStream.                *)
(***************************************************************************)
RECURSIVE Concat(_)
Concat(chunks) == IF chunks = <<>> THEN "" ELSE Head(chunks) \o Concat(Tail(chunks))

\* C20: each text delta is forwarded as one chunk after the chunks already
\* forwarded, so the chunks of a turn are its deltas in arrival order, none
\* dropped, merged or reordered; when the stream ends the assistant message
\* appended to the history is the concatenation of the chunks of the turn.
C20_ForwardInOrder ==
    /\ [](pc = "streaming" =>
            /\ Len(emitted) = requests[Len(requests)].emitted_before + turn.n_deltas
            /\ Concat(SubSeq(emitted, requests[Len(requests)].emitted_before + 1,
                             Len(emitted))) = turn.full_response)
    /\ [][/\ \A delta \in (StreamedDeltas \cup Deltas) \ {""} :
                (StreamDelta(delta) \/ GenDelta(delta)) =>
                  /\ emitted' = Append(emitted, delta)
                  /\ turn'.n_deltas = turn.n_deltas + 1
          /\ (pc \in {"streaming", "gen_failed"} /\ pc' = "ready") =>
                /\ emitted' = emitted
                /\ conversation_history' =
                      Append(conversation_history, Msg("assistant", Concat(emitted)))
         ]_vars

\* a stream of three deltas ended: three chunks in arrival order, and their
\* concatenation as the assistant message
C20_Witness ==
    /\ pc = "ready"
    /\ emitted = <<"lo", "Hel", "lo">>
    /\ conversation_history # <<>>
    /\ LastMessage = Msg("assistant", "loHello")

(***************************************************************************)
(* Properties of the classifier, checked under SpecIntent.                 *)
(***************************************************************************)
\* the category of a text made of three pieces, from the pieces themselves
IntentOfParts(a, b, c) ==
    IF {a, b, c} \cap WeatherParts # {} THEN "weather"
    ELSE IF {a, b, c} \cap CareerParts # {} THEN "career"
    ELSE "general"

\* C24: _detect_intent returns one of the three categories for every text,
\* the same one for the same text: Weather when the text holds a Weather
\* keyword in any letter case (also when it holds a Career keyword, before
\* or after it), otherwise Career when it holds a Career keyword, otherwise
\* General.
C24_IntentPriority ==
    ret.op = "_detect_intent" =>
        /\ ret.response \in {"weather", "career", "general"}
        /\ \A a \in TextParts, b \in TextParts, c \in TextParts :
              ret.answer = a \o b \o c => ret.response = IntentOfParts(a, b, c)

\* a text with a Career keyword followed by a Weather keyword was classified
C24_Witness ==
    /\ ret.op = "_detect_intent"
    /\ ret.answer = "job Weather "
    /\ ret.response = "weather"

(***************************************************************************)
(* Properties of the configuration check, checked under SpecValidate.      *)
(***************************************************************************)
\* the first field of a configuration that fails, in the order API key, base
\* URL, model, provider, told from the sets the fields were drawn from
FirstFailing(config) ==
    IF config.api_key \in BlankTexts THEN "API Key"
    ELSE IF config.base_url \notin WellFormedUrls THEN "URL"
    ELSE IF config.model \in BlankTexts THEN "model"
    ELSE IF config.provider \in BlankTexts THEN "provider"
    ELSE None

\* C26: validate_config answers valid, with no message, exactly for the
\* configurations whose API key, base URL, model and provider are non-blank
\* and whose URL is well-formed; for any other it answers invalid with a
\* message naming the first failing field in the order API key, base URL,
\* model, provider.
C26_FirstFailingField ==
    ret.op = "validate_config" =>
        IF FirstFailing(ret.answer) = None
        THEN ret.complete /\ ret.response = None
        ELSE /\ ~ret.complete
             /\ ret.response # None
             /\ StartsWith(ret.response, "<API Key ") = (FirstFailing(ret.answer) = "API Key")
             /\ Contains(ret.response, "URL ") = (FirstFailing(ret.answer) = "URL")
             /\ StartsWith(ret.response, "<model ") = (FirstFailing(ret.answer) = "model")
             /\ StartsWith(ret.response, "<provider ") =
                    (FirstFailing(ret.answer) = "provider")

\* a configuration with a malformed URL and a blank model was refused for
\* its URL
C26_Witness ==
    /\ ret.op = "validate_config"
    /\ ret.answer.api_key = "sk-test"
    /\ ret.answer.base_url = "ftp://api.openai.com/v1"
    /\ ret.answer.model = ""
    /\ ~ret.complete
    /\ Contains(ret.response, "invalid URL format")

HistoryKeys == {Lower(history[i].city) : i \in 1..Len(history)}

\* C13: the history never holds more than 10 entries; once 11 different
\* cities have been touched it holds exactly 10, and when each of the 11 was
\* touched once the first-touched city is absent.
C13_AtMostTen ==
    /\ Len(history) <= 10
    /\ Cardinality(TouchedKeys) >= 11 => Len(history) = 10
    /\ (Len(touched) = 11 /\ Cardinality(TouchedKeys) = 11) =>
          /\ Len(history) = 10
          /\ Lower(touched[1]) \notin HistoryKeys
          /\ \A k \in 2..11 : history[12 - k].city = touched[k]

\* eleven different cities have been touched once each
C13_Witness ==
    /\ Len(touched) = 11
    /\ Cardinality(TouchedKeys) = 11
    /\ Len(history) = 10
    /\ history[1].city = "Lima"
    /\ history[10].city = "Shanghai"

\* the index of the entry with the key of a typed city, 0 when there is none
IndexOfKey(entries, city) ==
    LET found == {i \in 1..Len(entries) : Lower(entries[i].city) = Lower(city)}
    IN IF found = {} THEN 0 ELSE CHOOSE i \in found : \A j \in found : i <= j

\* C14: touching a city whose case-folded key is in the history moves that
\* entry to index 0, adds exactly 1 to its query count and replaces its
\* snapshot; the number of entries is unchanged and the other entries keep
\* their counts, their contents and their relative order.
C14_RecencyUpdate ==
    [][\A city \in TypedCities : \A weather \in Readings(city) :
         (HistoryTouch(city, weather) /\ IndexOfKey(history, city) # 0) =>
            LET i == IndexOfKey(history, city) IN
            /\ Len(history') = Len(history)
            /\ Lower(history'[1].city) = Lower(city)
            /\ history'[1].city = history[i].city
            /\ history'[1].query_count = history[i].query_count + 1
            /\ history'[1].last_weather = weather
            /\ \A j \in 1..(i - 1) : history'[j + 1] = history[j]
            /\ \A j \in (i + 1)..Len(history) : history'[j] = history[j]]_vars

\* the entry stored as Beijing, third of three, has just been touched as
\* beijing: it is first, counted twice, with the new snapshot
C14_Witness ==
    /\ touched = <<"Beijing", "Shanghai", "Paris", "beijing">>
    /\ Len(history) = 3
    /\ history[1].city = "Beijing"
    /\ history[1].query_count = 2
    /\ history[1].last_weather = RainSnapshot("beijing")
    /\ history[2].city = "Paris"
    /\ history[3].city = "Shanghai"

\* C15: the history never holds two entries whose names are equal up to
\* letter case, and every entry has a query count of at least 1; touching a
\* name that differs only in case from a stored name adds no entry.
C15_OneEntryPerKey ==
    /\ [](/\ \A i, j \in 1..Len(history) :
                i # j => Lower(history[i].city) # Lower(history[j].city)
          /\ \A i \in 1..Len(history) : history[i].query_count >= 1)
    /\ [][\A city \in TypedCities : \A weather \in Readings(city) :
            (HistoryTouch(city, weather)
               /\ \E i \in 1..Len(history) :
                     history[i].city # city /\ Lower(history[i].city) = Lower(city)) =>
              /\ Len(history') = Len(history)
              /\ history'[1].city # city
              /\ Lower(history'[1].city) = Lower(city)]_vars

\* beijing was stored first and then touched as Beijing: one entry, counted
\* twice, still named beijing
C15_Witness ==
    /\ touched = <<"beijing", "Shanghai", "Beijing">>
    /\ Len(history) = 2
    /\ history[1].city = "beijing"
    /\ history[1].query_count = 2
    /\ history[2].city = "Shanghai"

\* the largest query count of the history
MaxCount ==
    CHOOSE m \in {history[i].query_count : i \in 1..Len(history)} :
        \A i \in 1..Len(history) : history[i].query_count <= m

\* C16: get_most_frequent_city() is None on an empty history and otherwise
\* the city of an entry whose query count is the largest, wherever that entry
\* stands; after Beijing, Shanghai three times and Beijing again it is
\* Shanghai while the entry at index 0 is Beijing.
C16_MostFrequent ==
    /\ history = <<>> => get_most_frequent_city(history) = None
    /\ history # <<>> =>
          \E i \in 1..Len(history) :
             /\ history[i].city = get_most_frequent_city(history)
             /\ history[i].query_count = MaxCount
    /\ touched = <<"Beijing", "Shanghai", "Shanghai", "Shanghai", "Beijing">> =>
          /\ get_most_frequent_city(history) = "Shanghai"
          /\ history[1].city = "Beijing"

\* the scenario has run: the most frequent city stands second
C16_Witness ==
    /\ touched = <<"Beijing", "Shanghai", "Shanghai", "Shanghai", "Beijing">>
    /\ history[1].city = "Beijing" /\ history[1].query_count = 2
    /\ history[2].city = "Shanghai" /\ history[2].query_count = 3
    /\ get_most_frequent_city(history) = "Shanghai"

\* C17: when several entries share the largest query count,
\* get_most_frequent_city() is the city of the one nearest index 0.
C17_TieBreak ==
    history # <<>> =>
        LET tied == {i \in 1..Len(history) : history[i].query_count = MaxCount}
            nearest == CHOOSE i \in tied : \A j \in tied : i <= j
        IN get_most_frequent_city(history) = history[nearest].city

\* two entries counted twice and one counted once between them in time: the
\* tied entry touched last wins
C17_Witness ==
    /\ Len(history) = 3
    /\ history[1].query_count = 2
    /\ history[2].query_count = 1
    /\ history[3].query_count = 2
    /\ history[1].city = "Beijing"
    /\ history[3].city = "Shanghai"
    /\ get_most_frequent_city(history) = "Beijing"

\* C30: touching a city that is not in a history of 10 entries puts it at
\* index 0 with query count 1 and drops exactly the entry at the tail: the
\* other nine entries follow in their order, unchanged.  Touching a city that
\* is in the history drops no entry.
C30_EvictTail ==
    [][\A city \in PoolNames :
         CacheFill(city) =>
            IF Lower(city) \in HistoryKeys
            THEN /\ Len(history') = Len(history)
                 /\ HistoryKeys' = HistoryKeys
            ELSE /\ history'[1].city = city
                 /\ history'[1].query_count = 1
                 /\ Len(history) < 10 => SubSeq(history', 2, Len(history')) = history
                 /\ Len(history) = 10 =>
                       /\ Len(history') = 10
                       /\ \A i \in 1..9 : history'[i + 1] = history[i]
                       /\ Lower(history[10].city) \notin HistoryKeys']_vars

\* ten cities were touched, the first of them again, and then an eleventh:
\* the second city, which was at the tail, is gone and the first is kept
C30_Witness ==
    /\ Len(touched) = 12
    /\ Lower(touched[11]) = "beijing"
    /\ touched[12] = "Lima"
    /\ Len(history) = 10
    /\ history[1].city = "Lima"
    /\ history[1].query_count = 1
    /\ history[2].query_count = 2
    /\ "shanghai" \notin HistoryKeys
    /\ "beijing" \in HistoryKeys

(***************************************************************************)
(* Frame properties of the orchestrator, checked under Spec.               *)
(***************************************************************************)
\* C38: the interview operations never change the weather history cache: no
\* step taken while the interview is active (an answer, the cancelling), no
\* step of the turn that completes it and streams the report, and no turn
\* that starts it.  A Weather or General turn taken in Idle mode changes, in
\* none of its steps, the mode or the state of the interview engine.
C38_Frame ==
    [][/\ (\/ in_career_interview
           \/ (pc # "ready" /\ turn.caller = "career")
           \/ \E t \in UserTexts :
                 ProcessMessage(t) /\ ~in_career_interview /\ IntentOf[t] = "career")
          => (history' = history /\ persisted' = persisted /\ clock' = clock)
       /\ (\/ \E t \in UserTexts :
                 /\ ProcessMessage(t)
                 /\ ~in_career_interview
                 /\ IntentOf[t] \in {"weather", "general"}
           \/ (pc # "ready" /\ ~in_career_interview /\ turn.caller # "career"))
          => (/\ in_career_interview' = in_career_interview
              /\ context' = context
              /\ current_stage' = current_stage
              /\ collected_info' = collected_info
              /\ needs_followup' = needs_followup)]_vars

\* the weather of Paris was looked up in Idle mode, then an interview was
\* started and its first answer given: the cache still holds the lookup
C38_Witness ==
    /\ in_career_interview
    /\ current_stage = 1
    /\ pc = "yielded"
    /\ Len(history) = 1
    /\ history[1].city = "Paris"
    /\ load_history(persisted) = history

\* C39: a Weather turn from whose text no city can be extracted emits
\* exactly one chunk, the question which city is meant, and ends there: no
\* weather lookup, no generation request, nothing written to the history
\* cache or its file, the agent Idle with the interview engine untouched and
\* nothing of the turn kept but its two messages, so that the next turn is
\* classified from scratch.
C39_AskWhichCity ==
    [][(ProcessMessage(TxtWind) /\ ~in_career_interview) =>
          /\ detect_intent(TxtWind) = "weather"
          /\ emitted' = <<"<which_city>">>
          /\ pc' = "yielded"
          /\ turn' = NoTurn
          /\ n_lookups' = n_lookups
          /\ n_requests' = n_requests
          /\ requests' = <<>>
          /\ history' = history
          /\ persisted' = persisted
          /\ ~in_career_interview'
          /\ UNCHANGED planner_vars
          /\ conversation_history' =
                conversation_history
                    \o <<[role |-> "user", content |-> TxtWind],
                         [role |-> "assistant", content |-> "<which_city>"]>>]_vars

\* the question has been asked in answer to a text with a weather keyword
\* and no city; an earlier turn had looked up Paris
C39_Witness ==
    /\ pc = "yielded"
    /\ emitted = <<"<which_city>">>
    /\ ~in_career_interview
    /\ conversation_history[Len(conversation_history) - 1].content = TxtWind
    /\ Len(history) = 1
    /\ n_lookups = 1

(***************************************************************************)
(* Properties of the failure classification, checked under Spec.           *)
(***************************************************************************)
\* C32: a generation failure whose error text contains 401, or the word
\* Unauthorized in any letter case, is answered with the check-your-API-key
\* apology and not with the generic one.
C32_UnauthorizedApology ==
    [][\A error_msg \in GenerationErrors :
          (/\ GenFail(error_msg)
           /\ \/ Contains(error_msg, "401")
              \/ Contains(Lower(error_msg), "unauthorized")) =>
             emitted'[Len(emitted')] = "<check_api_key>"]_vars

(***************************************************************************)
(* Properties of the request window, checked under Spec.                   *)
(***************************************************************************)
\* C33: a generation request is the system preamble followed by the most
\* recent messages of the conversation, at most 10 of them, in their order;
\* the conversation itself is never trimmed: but for clear_conversation, what
\* get_conversation_history() returned before a step is a prefix of what it
\* returns after it.
C33_RequestWindow ==
    [][/\ (requests' # requests /\ requests' # <<>>) =>
             LET r == requests'[Len(requests')].messages
                 h == conversation_history'
                 n == IF Len(h) <= 10 THEN Len(h) ELSE 10
             IN /\ Len(r) = n + 1
                /\ r[1] = [role |-> "system", content |-> SystemPrompt]
                /\ \A i \in 1..n : r[i + 1] = h[Len(h) - n + i]
       /\ ClearConversation \/ IsPrefix(conversation_history, conversation_history')
      ]_vars

\* the report request of an interview: the conversation holds 13 messages,
\* the request the preamble and the last 10 of them
C33_Witness ==
    /\ pc = "streaming"
    /\ Len(conversation_history) = 13
    /\ Len(requests) = 1
    /\ Len(requests[1].messages) = 11
    /\ requests[1].messages[2] = conversation_history[4]
    /\ requests[1].messages[11] = conversation_history[13]

(***************************************************************************)
(* Properties of the persisted history, checked under Spec.                *)
(***************************************************************************)
\* C34: the persisted history always mirrors the history in memory: a
\* WeatherService created on the file starts with the same entries, order
\* and counts; a lookup that succeeds touches the cache once and persists it;
\* a lookup that fails, whether the turn apologises or raises, writes
\* nothing.
C34_FileMirrorsMemory ==
    /\ [](load_history(persisted) = history)
    /\ [][\A t \in UserTexts :
            (ProcessMessage(t) /\ n_lookups' # n_lookups) =>
               IF pc' = "streaming"
               THEN /\ history' # <<>>
                    /\ Lower(history'[1].city) = Lower(CityOf[t])
                    /\ history'[1].query_count =
                          1 + (IF IndexOfKey(history, CityOf[t]) = 0 THEN 0
                               ELSE history[IndexOfKey(history, CityOf[t])].query_count)
                    /\ load_history(persisted') = history'
               ELSE history' = history /\ persisted' = persisted]_vars

====
